---- MODULE Spec2Model ----
(***************************************************************************)
(* A model of mechapy: the dimension guard (pint's ureg.check decorator)   *)
(* around the formula functions, and the property-table registries and     *)
(* single-record lookups of mechanics/materials.py and design/fasteners.py,*)
(* pint's Quantity arithmetic, and the gear, screw and section classes of  *)
(* design/gears.py, design/fasteners.py and mechanics/sections.py.         *)
(*                                                                         *)
(* Python strings are modelled as sequences of one-character strings, so   *)
(* that lower(), replace() and split() are computed character by character.*)
(***************************************************************************)
EXTENDS Integers, Sequences, FiniteSets, TLC

VARIABLES
    call,       \* the last call of a dimension-guarded formula function
    bodyRuns,   \* side-effect counter: how often a guarded body has executed
    cat,        \* which property table / registry class this run works on
    table,      \* the rows of that property table, in file order
    unit,       \* the unit-system selector passed to every builder of the run
    reg,        \* the registry object's __dict__: entries in insertion order
    regState,   \* "none" before construction, "built", or "failed"
    res,        \* outcome of the last registry / lookup operation
    calc,       \* two Quantity operands and the last operation made on them
    gear        \* the gear object of the run: its __dict__, or NoGear

vars == <<call, bodyRuns, cat, table, unit, reg, regState, res, calc, gear>>

guardVars == <<call, bodyRuns>>
tableVars == <<cat, table, unit, reg, regState, res>>
quantityVars == <<calc>>
designVars == <<gear>>

\* ------------------------------------------------------------------ bounds

\* cap of the side-effect counter
MaxCalls == 1
\* longest property table enumerated
MaxRows == 3

\* -------------------------------------------------------- python strings

UpperCase == <<"A","B","C","D","E","F","G","H","I","J","K","L","M",
               "N","O","P","Q","R","S","T","U","V","W","X","Y","Z">>
LowerCase == <<"a","b","c","d","e","f","g","h","i","j","k","l","m",
               "n","o","p","q","r","s","t","u","v","w","x","y","z">>
Digits == <<"0","1","2","3","4","5","6","7","8","9">>

IsUpper(c) == \E i \in 1..Len(UpperCase) : UpperCase[i] = c
IsLower(c) == \E i \in 1..Len(LowerCase) : LowerCase[i] = c
IsDigit(c) == \E i \in 1..Len(Digits) : Digits[i] = c
DigitVal(c) == (CHOOSE i \in 1..Len(Digits) : Digits[i] = c) - 1

LowerChar(c) ==
    IF IsUpper(c)
    THEN LowerCase[CHOOSE i \in 1..Len(UpperCase) : UpperCase[i] = c]
    ELSE c

\* str.lower()
Lower(s) == [i \in 1..Len(s) |-> LowerChar(s[i])]

RECURSIVE Replace(_, _, _)
\* str.replace(c, r) for a one-character c and any replacement string r
Replace(s, c, r) ==
    IF s = <<>> THEN <<>>
    ELSE (IF Head(s) = c THEN r ELSE <<Head(s)>>) \o Replace(Tail(s), c, r)

RECURSIVE StrNat(_)
\* str(n) of a non-negative int
StrNat(n) ==
    IF n < 10 THEN <<Digits[n + 1]>>
    ELSE StrNat(n \div 10) \o <<Digits[(n % 10) + 1]>>

\* str.startswith(p)
StartsWith(s, p) == Len(s) >= Len(p) /\ SubSeq(s, 1, Len(p)) = p

\* position of the first occurrence of sep in s at or after i, 0 if none
RECURSIVE FindFrom(_, _, _)
FindFrom(s, sep, i) ==
    IF i + Len(sep) - 1 > Len(s) THEN 0
    ELSE IF SubSeq(s, i, i + Len(sep) - 1) = sep THEN i
    ELSE FindFrom(s, sep, i + 1)

RECURSIVE Split(_, _)
\* str.split(sep) for a non-empty separator
Split(s, sep) ==
    LET p == FindFrom(s, sep, 1) IN
    IF p = 0 THEN <<s>>
    ELSE <<SubSeq(s, 1, p - 1)>> \o Split(SubSeq(s, p + Len(sep), Len(s)), sep)

\* ------------------------------------------------------------ dimensions

\* A dimension is an exponent vector over the base dimensions: length,
\* mass, time and temperature.
Dim(l, m, t) == [L |-> l, M |-> m, T |-> t, K |-> 0]
DimMul(a, b) == [L |-> a.L + b.L, M |-> a.M + b.M, T |-> a.T + b.T, K |-> a.K + b.K]
DimDiv(a, b) == [L |-> a.L - b.L, M |-> a.M - b.M, T |-> a.T - b.T, K |-> a.K - b.K]
DimPow(a, n) == [L |-> a.L * n, M |-> a.M * n, T |-> a.T * n, K |-> a.K * n]

Dimensionless == Dim(0, 0, 0)
LengthDim == Dim(1, 0, 0)
MassDim == Dim(0, 1, 0)
TimeDim == Dim(0, 0, 1)
AreaDim == DimPow(LengthDim, 2)
VolumeDim == DimPow(LengthDim, 3)
ForceDim == DimDiv(DimMul(MassDim, LengthDim), DimPow(TimeDim, 2))
PressureDim == DimDiv(ForceDim, AreaDim)
DensityDim == DimDiv(MassDim, VolumeDim)
EnergyDim == DimMul(ForceDim, LengthDim)
TemperatureDim == [L |-> 0, M |-> 0, T |-> 0, K |-> 1]

\* ---------------------------------------------------------- guard values

\* An argument is a pint Quantity of some dimension, a plain number, or a str.
Q(d) == [kind |-> "Q", dim |-> d]
Num == [kind |-> "num"]
Str(s) == [kind |-> "str", s |-> s]
NoResult == [kind |-> "none"]

\* the signature entry None
None == [kind |-> "None"]

IsQuantity(v) == v.kind = "Q"

QuantityArgs == {Q(ForceDim), Q(AreaDim), Q(LengthDim), Q(DensityDim)}
\* what a caller may pass in a guarded position
GuardedArgs == QuantityArgs \cup {Num}
\* what a caller may pass where the signature says None
FreeArgs == {Num, Q(ForceDim), Q(LengthDim), Str("ball")}

\* ------------------------------------------------------ dimension guard

\* Quantity.check(dim): the argument's dimensionality equals the entry's
Matches(arg, entry) == IsQuantity(arg) /\ arg.dim = entry

\* positions the wrapper pairs up: zip(dimensions, args)
Zipped(sig, args) == 1..(IF Len(sig) < Len(args) THEN Len(sig) ELSE Len(args))

\* Offending with the None entries checked like any other entry
Offending_NoneChecked(sig, args) ==
    {i \in Zipped(sig, args) : ~Matches(args[i], sig[i])}

\* the positions at which the wrapper raises
Offending(sig, args) ==
    {i \in Zipped(sig, args) : sig[i] # None /\ ~Matches(args[i], sig[i])}

\* Check stopping after the first position
Check_FirstOnly(sig, args) ==
    IF 1 \in Offending(sig, args) THEN 1 ELSE 0

\* ureg.check's wrapper: 0 if every checked position matches, otherwise the
\* first offending position (the loop raises there and goes no further)
Check(sig, args) ==
    LET bad == Offending(sig, args) IN
    IF bad = {} THEN 0 ELSE CHOOSE i \in bad : \A j \in bad : i <= j

\* The error the wrapper raises for the offending argument.  A Quantity of
\* the wrong dimensionality gives DimensionalityError.  A value that is no
\* Quantity gives DimensionalityError where the wrapper wraps it in
\* Quantity(value) first, and AttributeError where it reads
\* value.dimensionality directly: setup.py pins no pint version, so either.
GuardErrors(arg) ==
    IF IsQuantity(arg) THEN {"DimensionalityError"}
    ELSE {"DimensionalityError", "AttributeError"}

\* the signatures given to @ureg.check
Sig_stress_eng == <<ForceDim, AreaDim>>
Sig_stress_true == <<ForceDim, AreaDim, None>>
Sig_bearing_life_revs == <<ForceDim, ForceDim, None>>
Sig_dynamic_equiv_rad_load == <<ForceDim, ForceDim, None, None>>
Sig_mass_rod == <<LengthDim, LengthDim, DensityDim>>
Sig_bearing_life_hours == <<ForceDim, ForceDim, TimeDim, None>>

Signature(fn) ==
    CASE fn = "stress_eng" -> Sig_stress_eng
      [] fn = "stress_true" -> Sig_stress_true
      [] fn = "bearing_life_revs" -> Sig_bearing_life_revs
      [] fn = "dynamic_equiv_rad_load" -> Sig_dynamic_equiv_rad_load
      [] fn = "mass_rod" -> Sig_mass_rod
      [] fn = "bearing_life_hours" -> Sig_bearing_life_hours
      [] OTHER -> <<>>

\* Quantity arithmetic as far as the bodies use it
QMul(a, b) ==
    CASE IsQuantity(a) /\ IsQuantity(b) -> Q(DimMul(a.dim, b.dim))
      [] IsQuantity(a) -> a
      [] IsQuantity(b) -> b
      [] OTHER -> Num
DimOf(v) == IF IsQuantity(v) THEN v.dim ELSE Dimensionless
QDiv(a, b) == Q(DimDiv(DimOf(a), DimOf(b)))

\* The bodies, run only once the guard has passed: [status, result].
Body_stress_eng(args) ==
    [status |-> "ok", result |-> QDiv(args[1], args[2])]

Body_stress_true(args) ==
    IF args[3].kind # "num"
    THEN [status |-> "TypeError", result |-> NoResult]
    ELSE [status |-> "ok", result |-> QMul(QDiv(args[1], args[2]), Num)]

Body_bearing_life_revs(args) ==
    IF args[3] \notin {Str("ball"), Str("roller")}
    THEN [status |-> "KeyError", result |-> NoResult]
    ELSE [status |-> "ok", result |-> Q(DimPow(DimOf(QDiv(args[1], args[2])), 3))]

Body_dynamic_equiv_rad_load(args) ==
    LET t1 == QMul(args[3], args[1])
        t2 == QMul(args[4], args[2])
    IN  IF args[3].kind = "str" \/ args[4].kind = "str"
        THEN [status |-> "TypeError", result |-> NoResult]
        ELSE IF DimOf(t1) # DimOf(t2)
        THEN [status |-> "DimensionalityError", result |-> NoResult]
        ELSE [status |-> "ok", result |-> t1]

Body_mass_rod(args) ==
    [status |-> "ok",
     result |-> Q(DimMul(DimMul(DimPow(DimOf(args[1]), 2), DimOf(args[2])),
                         DimOf(args[3])))]

\* dimensionality of ureg.rpm and ureg.Hz
FrequencyDim == DimPow(TimeDim, -1)

\* rpm.to(ureg.rpm), then bearing_life_revs (guarded itself), then
\* (1000000 / 60 * speed) * life_revs
Body_bearing_life_hours(args) ==
    IF ~IsQuantity(args[3])
    THEN [status |-> "AttributeError", result |-> NoResult]
    ELSE IF DimOf(args[3]) # FrequencyDim
    THEN [status |-> "DimensionalityError", result |-> NoResult]
    ELSE IF Check(Sig_bearing_life_revs, <<args[1], args[2], args[4]>>) # 0
    THEN [status |-> "DimensionalityError", result |-> NoResult]
    ELSE LET life_revs == Body_bearing_life_revs(<<args[1], args[2], args[4]>>) IN
         IF life_revs.status # "ok" THEN life_revs
         ELSE [status |-> "ok", result |-> QMul(QMul(Num, args[3]), life_revs.result)]

Body(fn, args) ==
    CASE fn = "stress_eng" -> Body_stress_eng(args)
      [] fn = "stress_true" -> Body_stress_true(args)
      [] fn = "bearing_life_revs" -> Body_bearing_life_revs(args)
      [] fn = "dynamic_equiv_rad_load" -> Body_dynamic_equiv_rad_load(args)
      [] fn = "mass_rod" -> Body_mass_rod(args)
      [] fn = "bearing_life_hours" -> Body_bearing_life_hours(args)

NoCall == [fn |-> "none", args |-> <<>>, ran |-> FALSE, status |-> "none",
           result |-> NoResult]

\* A call of the guarded function fn: the wrapper checks the arguments and
\* either raises, leaving the body unexecuted, or runs the body.
GuardedCall(fn, args) ==
    LET bad == Check(Signature(fn), args) IN
    /\ IF bad # 0
       THEN /\ \E err \in GuardErrors(args[bad]) :
                 call' = [fn |-> fn, args |-> args, ran |-> FALSE,
                          status |-> err, result |-> NoResult]
            /\ bodyRuns' = bodyRuns
       ELSE /\ bodyRuns < MaxCalls
            /\ bodyRuns' = bodyRuns + 1
            /\ call' = [fn |-> fn, args |-> args, ran |-> TRUE,
                        status |-> Body(fn, args).status,
                        result |-> Body(fn, args).result]
    /\ UNCHANGED <<tableVars, quantityVars, designVars>>

stress_eng ==
    \E load \in GuardedArgs, area \in GuardedArgs :
        GuardedCall("stress_eng", <<load, area>>)

stress_true ==
    \E load \in GuardedArgs, area_actual \in GuardedArgs, strain \in FreeArgs :
        GuardedCall("stress_true", <<load, area_actual, strain>>)

bearing_life_revs ==
    \E dynamic_load_rating \in GuardedArgs, dynamic_load \in GuardedArgs,
       kind \in FreeArgs :
        GuardedCall("bearing_life_revs", <<dynamic_load_rating, dynamic_load, kind>>)

dynamic_equiv_rad_load ==
    \E actual_rad_load \in GuardedArgs, actual_ax_load \in GuardedArgs,
       rad_load_factor \in FreeArgs, ax_load_factor \in FreeArgs :
        GuardedCall("dynamic_equiv_rad_load",
                    <<actual_rad_load, actual_ax_load, rad_load_factor, ax_load_factor>>)

mass_rod ==
    \E diameter \in GuardedArgs, length \in GuardedArgs, density \in GuardedArgs :
        GuardedCall("mass_rod", <<diameter, length, density>>)

\* no Quantity operands drawn
NoCalc == [op |-> "none"]

\* no gear object constructed
NoGear == [cls |-> "none"]

NoRegistry == [op |-> "none", args |-> <<>>, status |-> "none", out |-> [missing |-> TRUE]]

InitGuard ==
    /\ call = NoCall
    /\ bodyRuns = 0
    /\ cat = "none"
    /\ table = <<>>
    /\ unit = "SI"
    /\ reg = <<>>
    /\ regState = "none"
    /\ res = NoRegistry
    /\ calc = NoCalc
    /\ gear = NoGear

NextGuard ==
    \/ stress_eng
    \/ stress_true
    \/ bearing_life_revs
    \/ dynamic_equiv_rad_load
    \/ mass_rod

SpecGuard == InitGuard /\ [][NextGuard]_vars

\* bearing_life_hours on its own: loads and speeds a caller may pass
LoadArgs == {Q(ForceDim), Q(AreaDim), Num}
SpeedArgs == {Q(FrequencyDim), Q(TimeDim), Q(ForceDim), Q(Dimensionless), Num}
KindArgs == {Str("ball"), Str("roller"), Str("plain"), Num}

bearing_life_hours ==
    \E dynamic_load_rating \in LoadArgs, dynamic_load \in LoadArgs,
       rpm \in SpeedArgs, kind \in KindArgs :
        GuardedCall("bearing_life_hours",
                    <<dynamic_load_rating, dynamic_load, rpm, kind>>)

NextHours == bearing_life_hours

SpecHours == InitGuard /\ [][NextHours]_vars

\* ------------------------------------------------------- property tables

\* string constants of the source, as character sequences
s_aisi == <<"a","i","s","i">>
s_us == <<"_">>
s_sp == <<" ">>
s_dash == <<"-">>
s_slash == <<"/">>
s_dot == <<".">>
s_thread_ == <<"t","h","r","e","a","d","_">>
s_sae_ == <<"s","a","e","_">>
s_spU == <<" ","U">>
s_4_1_2 == <<"4"," ","1","/","2">>
s_As_rolled == <<"A","s","-","r","o","l","l","e","d">>
s_Normalized == <<"N","o","r","m","a","l","i","z","e","d">>
s_Annealed == <<"A","n","n","e","a","l","e","d">>
s_austenitic == <<"a","u","s","t","e","n","i","t","i","c">>
s_martensitic == <<"m","a","r","t","e","n","s","i","t","i","c">>
s_ferritic == <<"f","e","r","r","i","t","i","c">>
s_annealed == <<"a","n","n","e","a","l","e","d">>
s_cold_worked == <<"c","o","l","d"," ","w","o","r","k","e","d">>
s_heat_treated == <<"h","e","a","t"," ","t","r","e","a","t","e","d">>
s_glass_reinforced == <<"g","l","a","s","s"," ","r","e","i","n","f","o","r","c","e","d">>
s_unreinforced == <<"u","n","r","e","i","n","f","o","r","c","e","d">>
s_Carbon_Steel == <<"C","a","r","b","o","n"," ","S","t","e","e","l">>
s_Stainless_Steel == <<"S","t","a","i","n","l","e","s","s"," ","S","t","e","e","l">>
s_Aluminum == <<"A","l","u","m","i","n","u","m">>
s_Beryl_Copper == <<"B","e","r","y","l"," ","C","o","p","p","e","r">>
s_Beryl_Copper_us == <<"B","e","r","y","l","_","C","o","p","p","e","r">>
s_ABS == <<"A","B","S">>
s_Acetal == <<"A","c","e","t","a","l">>
s_PTFE == <<"P","T","F","E">>
s_Nylon_6_12 == <<"N","y","l","o","n"," ","6","/","1","2">>
s_Polycarbonate == <<"P","o","l","y","c","a","r","b","o","n","a","t","e">>
s_Polyester == <<"P","o","l","y","e","s","t","e","r">>
s_Polyethylene == <<"P","o","l","y","e","t","h","y","l","e","n","e">>
s_Polypropylene == <<"P","o","l","y","p","r","o","p","y","l","e","n","e">>
s_Polystyrene == <<"P","o","l","y","s","t","y","r","e","n","e">>
s_2A == <<"2","A">>
s_3A == <<"3","A">>
s_size_quarter == <<"1","/","4","-","2","0"," ","U","N","C">>
s_size_1_1_8 == <<"1"," ","1","/","8","-","7"," ","U","N","C">>
s_size_irregular == <<"2","-","4"," ","1","/","2"," ","U","N","C">>
s_size_nodash == <<"M","6"," ","X"," ","1">>
s_size_M8 == <<"M","8"," ","X"," ","1",".","2","5">>
s_mm == <<"m","m">>
s_inch == <<"i","n","c","h">>

\* the rows each table is drawn from (a table is any sequence of up to
\* MaxRows of them, repeats included: the table enforces no uniqueness)
BaseMetalRows ==
    { [metal |-> s_Aluminum, rho |-> 2700, w |-> 169, e_gpa |-> 71, e_mpsi |-> 10, nu |-> 33],
      [metal |-> s_Beryl_Copper, rho |-> 8200, w |-> 512, e_gpa |-> 124, e_mpsi |-> 18, nu |-> 29],
      [metal |-> s_Beryl_Copper_us, rho |-> 8300, w |-> 518, e_gpa |-> 125, e_mpsi |-> 19, nu |-> 28] }

CarbonSteelRows ==
    { [aisi |-> 1015, treatment |-> s_As_rolled, ts_mpa |-> 421, ys_mpa |-> 314,
       ts_ksi |-> 61, ys_ksi |-> 46, elongation_pct |-> 39, brinell_hardness |-> 126],
      [aisi |-> 1015, treatment |-> s_As_rolled, ts_mpa |-> 500, ys_mpa |-> 320,
       ts_ksi |-> 73, ys_ksi |-> 47, elongation_pct |-> 37, brinell_hardness |-> 121],
      [aisi |-> 1020, treatment |-> s_As_rolled, ts_mpa |-> 448, ys_mpa |-> 331,
       ts_ksi |-> 65, ys_ksi |-> 48, elongation_pct |-> 36, brinell_hardness |-> 143],
      [aisi |-> 9999, treatment |-> s_As_rolled, ts_mpa |-> 300, ys_mpa |-> 200,
       ts_ksi |-> 44, ys_ksi |-> 29, elongation_pct |-> 30, brinell_hardness |-> 100] }

StainlessSteelRows ==
    { [aisi |-> 302, structure |-> s_austenitic, treatment |-> s_annealed, uts_ksi |-> 90],
      [aisi |-> 302, structure |-> s_austenitic, treatment |-> s_cold_worked, uts_ksi |-> 110],
      [aisi |-> 410, structure |-> s_martensitic, treatment |-> s_heat_treated, uts_ksi |-> 180] }

GrayCastIronRows ==
    { [astm |-> 20, h_b |-> 156, ts_mpa |-> 152, ts_ksi |-> 22, cs_mpa |-> 572,
       rev_bending_fat_limit_mpa |-> 69],
      [astm |-> 60, h_b |-> 302, ts_mpa |-> 431, ts_ksi |-> 62, cs_mpa |-> 1293,
       rev_bending_fat_limit_mpa |-> 169] }

PolymerRows ==
    { [base_resin |-> s_ABS, reinforcement |-> s_unreinforced, tensile_strength_ksi |-> 6],
      [base_resin |-> s_ABS, reinforcement |-> s_glass_reinforced, tensile_strength_ksi |-> 14],
      [base_resin |-> s_Nylon_6_12, reinforcement |-> s_glass_reinforced,
       tensile_strength_ksi |-> 22] }

\* diameters in ten-thousandths of an inch
UnifiedThreadRows ==
    { [size |-> s_size_quarter, fit_class |-> s_2A, max_major_dia |-> 2489,
       min_dia |-> 2367, minor_dia |-> 1876],
      [size |-> s_size_quarter, fit_class |-> s_2A, max_major_dia |-> 2500,
       min_dia |-> 2370, minor_dia |-> 1887],
      [size |-> s_size_irregular, fit_class |-> s_2A, max_major_dia |-> 19971,
       min_dia |-> 19641, minor_dia |-> 17274],
      [size |-> s_size_nodash, fit_class |-> s_3A, max_major_dia |-> 2362,
       min_dia |-> 2300, minor_dia |-> 1900] }

\* sae holds the grade in tenths (50 is grade 5.0, 98 is grade 9.8): the
\* column is read as float64
ScrewGradeRows ==
    { [sae |-> 50, unit |-> s_inch, diameter_min |-> 250, tensile_strength |-> 120],
      [sae |-> 50, unit |-> s_inch, diameter_min |-> 1125, tensile_strength |-> 105],
      [sae |-> 98, unit |-> s_mm, diameter_min |-> 1600, tensile_strength |-> 650] }

\* lengths in hundredths of a millimetre, stress_area in tenths of mm^2
MetricThreadRows ==
    { [size |-> s_size_nodash, pitch |-> 100, major_dia |-> 600, minor_dia |-> 477,
       stress_area |-> 201],
      [size |-> s_size_nodash, pitch |-> 100, major_dia |-> 598, minor_dia |-> 475,
       stress_area |-> 199],
      [size |-> s_size_M8, pitch |-> 125, major_dia |-> 800, minor_dia |-> 647,
       stress_area |-> 366] }

\* the tables the package reads; RegistryClasses are those a registry
\* constructor iterates (MetricThreadRegistry reads the unified thread
\* table, so no registry is built over the metric thread table)
RegistryClasses == {"base", "carbon", "stainless", "polymer", "thread", "grade"}
Categories == RegistryClasses \cup {"metric_thread"}

RowsOf(c) ==
    CASE c = "base" -> BaseMetalRows
      [] c = "carbon" -> CarbonSteelRows
      [] c = "stainless" -> StainlessSteelRows
      [] c = "polymer" -> PolymerRows
      [] c = "thread" -> UnifiedThreadRows
      [] c = "grade" -> ScrewGradeRows
      [] c = "metric_thread" -> MetricThreadRows
      [] c = "gray" -> GrayCastIronRows

Tables(c) == UNION {[1..n -> RowsOf(c)] : n \in 0..MaxRows}

\* the selectors a caller may pass as unit
UnitSelectors == {"SI", "Imperial", "metric"}

\* ------------------------------------------------------------ units.py

\* The names mechapy/units.py binds, each to the pint unit it is bound to
\* (the ones the record builders read).
units_names ==
    {"mm", "inch", "kg", "kilogram", "newtons", "ksi", "megapsi", "MPa",
     "megapascal", "GPa", "gigapascal", "cu_ft", "cu_in", "cu_m", "joule",
     "joules", "ftlb"}

units(n) ==
    CASE n = "mm" -> "milliliter"
      [] n = "inch" -> "inch"
      [] n \in {"kg", "kilogram"} -> "kilogram"
      [] n = "newtons" -> "newton"
      [] n = "ksi" -> "kilopsi"
      [] n = "megapsi" -> "megapsi"
      [] n \in {"MPa", "megapascal"} -> "megapascal"
      [] n \in {"GPa", "gigapascal"} -> "gigapascal"
      [] n = "cu_ft" -> "foot ** 3"
      [] n = "cu_in" -> "inch ** 3"
      [] n = "cu_m" -> "meter ** 3"
      [] n \in {"joule", "joules"} -> "joule"
      [] n = "ftlb" -> "foot * force_pound"
      [] OTHER -> "AttributeError"

\* compound units: a / b, a ** -1 and a ** 2
UnitDiv(a, b) == [num |-> a, den |-> b]
UnitSq(a) == [base |-> a, exp |-> 2]
UnitInv(a) == [num |-> "dimensionless", den |-> a]

\* a Quantity held by a record: magnitude * unit
Qty(m, u) == [mag |-> m, unit |-> u]

\* kilopascal per unit, for the pressure units converted between
KiloPascalPer(u) ==
    CASE u = "kilopsi" -> 6895
      [] u = "megapascal" -> 1000
      [] u = "gigapascal" -> 1000000

\* Quantity.to(u) between pressure units (magnitudes kept as integers: the
\* float result truncated)
To(q, u) == Qty((q.mag * KiloPascalPer(q.unit)) \div KiloPascalPer(u), u)

\* ------------------------------------------------------- row retrieval

Ok(r) == [status |-> "ok", rec |-> r]
NoRecord == [missing |-> TRUE]
Raise(e) == [status |-> e, rec |-> NoRecord]

\* Loc with the mask dropped: every row selected
Loc_IgnoreMask(t, mask) == 1..Len(t)

\* df.loc[mask] for a boolean mask with one entry per row: the positions of
\* the selected rows, in row order
Loc(t, mask) == {i \in 1..Len(t) : mask[i]}

\* RecordsFirst taking [-1], the last of the selected rows
RecordsLast(t, idx) == t[CHOOSE i \in idx : \A j \in idx : i >= j]

\* .to_dict(orient='records')[0]: the first of the selected rows
RecordsFirst(t, idx) == t[CHOOSE i \in idx : \A j \in idx : i <= j]

\* ------------------------------------------------------ record builders

\* Metal.__init__ (materials.py)
Metal(t, base_mat_alloy, u) ==
    LET idx == Loc(t, [i \in 1..Len(t) |-> t[i].metal = base_mat_alloy]) IN
    IF idx = {} THEN Raise("NameError")
    ELSE IF u \notin {"SI", "Imperial"} THEN Raise("NameError")
    \* mat_props.loc[name] of a repeated index label is a frame, not a row:
    \* its to_dict() holds dicts, and dict * unit is no valid magnitude
    ELSE IF Cardinality(idx) > 1 THEN Raise("TypeError")
    ELSE LET select_mat == RecordsFirst(t, idx) IN
         IF u = "SI"
         THEN Ok([density |-> Qty(select_mat.rho, UnitDiv(units("newtons"), units("kilogram"))),
                  mod_elast |-> Qty(select_mat.e_gpa, units("gigapascal")),
                  poissons_ratio |-> select_mat.nu,
                  base_metal |-> select_mat.metal])
         ELSE IF "lbm" \notin units_names THEN Raise("AttributeError")
         ELSE Ok([density |-> Qty(select_mat.w, UnitDiv(units("lbm"), units("cu_ft"))),
                  mod_elast |-> Qty(select_mat.e_mpsi, units("megapsi")),
                  poissons_ratio |-> select_mat.nu,
                  base_metal |-> select_mat.metal])

aisi_specs_carbon ==
    {1015, 1020, 1030, 1040, 1050, 1095, 1118, 3140, 4130, 4140, 4340, 6150,
     8650, 8740, 9255}
treatments_carbon == {s_As_rolled, s_Normalized, s_Annealed}

\* CarbonSteel.__init__ (materials.py).  t is the steel tensile table; the
\* generic values come from the base metal table's 'Carbon Steel' row, which
\* is taken to be there (a table without it gives KeyError for every call).
CarbonSteel(t, aisi, treatment, u) ==
    LET idx == Loc(t, [i \in 1..Len(t) |-> t[i].aisi = aisi /\ t[i].treatment = treatment]) IN
    IF aisi \notin aisi_specs_carbon THEN Raise("ValueError")
    ELSE IF treatment \notin treatments_carbon THEN Raise("NameError")
    ELSE IF idx = {} THEN Raise("IndexError")
    ELSE LET props == RecordsFirst(t, idx)
             common == [base_metal |-> s_Carbon_Steel, aisi |-> aisi,
                        treatment |-> treatment,
                        elongation_pct |-> props.elongation_pct,
                        brinell_hardness |-> props.brinell_hardness]
         IN
         IF u = "SI"
         THEN Ok(common @@
                 [tensile_strength |-> Qty(props.ts_mpa, units("megapascal")),
                  yield_strength |-> Qty(props.ys_mpa, units("megapascal"))])
         ELSE IF u = "Imperial"
         THEN IF "lbm" \notin units_names THEN Raise("AttributeError")
              ELSE Ok(common @@
                      [tensile_strength |-> Qty(props.ts_ksi, units("ksi")),
                       yields_strength |-> Qty(props.ys_ksi, units("ksi"))])
         ELSE Ok(common)

aisi_specs_stainless == {302, 303, 304, 310, 347, 384, 410, 414, 416, 431, 440, 430, 446}
structures_stainless == {s_austenitic, s_martensitic, s_ferritic}
treatments_stainless == {s_annealed, s_cold_worked, s_heat_treated}

\* StainlessSteel.__init__ (materials.py)
StainlessSteel(t, aisi, structure, treatment, u) ==
    LET idx == Loc(t, [i \in 1..Len(t) |-> /\ t[i].aisi = aisi
                                            /\ t[i].structure = structure
                                            /\ t[i].treatment = treatment]) IN
    IF aisi \notin aisi_specs_stainless THEN Raise("ValueError")
    ELSE IF structure \notin structures_stainless THEN Raise("NameError")
    ELSE IF treatment \notin treatments_stainless THEN Raise("NameError")
    ELSE IF u \notin {"SI", "Imperial"} THEN Raise("NameError")
    ELSE IF idx = {} THEN Raise("IndexError")
    ELSE LET props == RecordsFirst(t, idx) IN
         IF u = "Imperial"
         THEN IF "lbm" \notin units_names THEN Raise("AttributeError")
              ELSE Ok([aisi |-> aisi, structure |-> props.structure,
                       treatment |-> props.treatment,
                       tensile_strength |-> Qty(props.uts_ksi, units("ksi"))])
         ELSE Ok([aisi |-> aisi, structure |-> props.structure,
                  treatment |-> props.treatment,
                  tensile_strength |-> To(Qty(props.uts_ksi, units("ksi")), units("MPa"))])

astm_specs == {20, 25, 30, 35, 40, 50, 60}

\* GrayCastIron.__init__ (materials.py); the base metal table's
\* 'Gray Cast Iron' row is taken to be there
GrayCastIron(t, astm, u) ==
    LET idx == Loc(t, [i \in 1..Len(t) |-> t[i].astm = astm]) IN
    IF astm \notin astm_specs THEN Raise("ValueError")
    ELSE IF u \notin {"SI", "Imperial"} THEN Raise("NameError")
    ELSE IF idx = {} THEN Raise("IndexError")
    ELSE LET props == RecordsFirst(t, idx) IN
         IF u = "SI"
         THEN Ok([astm |-> astm, h_b |-> props.h_b,
                  tensile_strength |-> Qty(props.ts_mpa, units("megapascal")),
                  compressive_strength |-> Qty(props.cs_mpa, units("megapascal")),
                  rev_bending_fatigue_lim |->
                      Qty(props.rev_bending_fat_limit_mpa, units("megapascal"))])
         ELSE IF "lbm" \notin units_names THEN Raise("AttributeError")
         ELSE Ok([astm |-> astm, h_b |-> props.h_b,
                  tensile_strength |-> Qty(props.ts_ksi, units("ksi")),
                  compressive_strength |-> Qty(props.cs_mpa, units("megapascal")),
                  rev_bending_fatigue_lim |->
                      Qty(props.rev_bending_fat_limit_mpa, units("ksi"))])

polymers ==
    {s_ABS, s_Acetal, s_PTFE, s_Nylon_6_12, s_Polycarbonate, s_Polyester,
     s_Polyethylene, s_Polypropylene, s_Polystyrene}

\* a Python bool or str passed as an argument
PyBool(b) == [ty |-> "bool", v |-> b]
PyStr(x) == [ty |-> "str", v |-> x]

\* Python truth value of a bool or a str
Truthy(x) == IF x.ty = "bool" THEN x.v ELSE x.v # <<>>

\* Polymer.__init__ (materials.py)
Polymer(t, name, reinforced, u) ==
    LET reinforcement == IF Truthy(reinforced) THEN s_glass_reinforced ELSE s_unreinforced
        idx == Loc(t, [i \in 1..Len(t) |->
                           t[i].base_resin = name /\ t[i].reinforcement = reinforcement])
    IN
    IF name \notin polymers THEN Raise("NameError")
    ELSE IF idx = {} THEN Raise("IndexError")
    ELSE LET props == RecordsFirst(t, idx)
             ts == Qty(props.tensile_strength_ksi, units("ksi"))
         IN  Ok([name |-> name, reinforced |-> reinforced,
                 tensile_strength |-> IF u = "SI" THEN To(ts, units("megapascal")) ELSE ts])

\* float(s) of a string of digits with at most one '.' and one digit after
\* it, in tenths; -1 where float(s) raises ValueError
Float10(s) ==
    LET p == FindFrom(s, s_dot, 1)
        whole == IF p = 0 THEN s ELSE SubSeq(s, 1, p - 1)
        frac == IF p = 0 THEN <<>> ELSE SubSeq(s, p + 1, Len(s))
        AllDigits(x) == \A i \in 1..Len(x) : IsDigit(x[i])
        Val(x) == IF x = <<>> THEN 0
                  ELSE LET f[i \in 0..Len(x)] ==
                               IF i = 0 THEN 0 ELSE 10 * f[i - 1] + DigitVal(x[i])
                       IN f[Len(x)]
    IN  IF AllDigits(whole) /\ AllDigits(frac) /\ Len(frac) <= 1 /\ Len(whole) + Len(frac) > 0
        THEN 10 * Val(whole) + Val(frac)
        ELSE -1

\* ThreadsPerInch defaulting every unparsable token to 4.5
ThreadsPerInch_Defaulted(tok) ==
    IF Float10(tok) >= 0 THEN Float10(tok) ELSE 45

\* The try/except around float(): the parsed value in tenths, 45 for the
\* one special-cased token '4 1/2', and -1 where the ValueError is re-raised.
ThreadsPerInch(tok) ==
    IF Float10(tok) >= 0 THEN Float10(tok)
    ELSE IF tok = s_4_1_2 THEN 45 ELSE -1

\* the columns UnifiedScrewThread reads with props[...] outside a try block
ThreadColumnsRead == {"max_major_dia", "minor_dia"}

\* UnifiedScrewThread.__init__ (fasteners.py); threads_per_inch in tenths.
\* props['min_dia'] is read inside "try: ... except: pass".
UnifiedScrewThread(t, size, fit_class) ==
    LET idx == Loc(t, [i \in 1..Len(t) |-> t[i].size = size /\ t[i].fit_class = fit_class]) IN
    IF idx = {} THEN Raise("IndexError")
    ELSE LET props == RecordsFirst(t, idx)
             parts == Split(props.size, s_dash)
         IN  IF Len(parts) < 2 THEN Raise("IndexError")
             ELSE LET tok == Split(parts[2], s_spU)[1]
                      words == Split(props.size, s_sp)
                      tpi == ThreadsPerInch(tok)
                  IN  IF tpi < 0 THEN Raise("ValueError")
                      ELSE IF ~(ThreadColumnsRead \subseteq DOMAIN props)
                      THEN Raise("KeyError")
                      ELSE LET thread ==
                                   [size |-> parts[1],
                                    threads_per_inch |-> Qty(tpi, UnitInv(units("inch"))),
                                    series |-> words[Len(words)],
                                    fit_class |-> props.fit_class,
                                    major_dia |-> Qty(props.max_major_dia, units("inch")),
                                    minor_dia |-> props.minor_dia]
                           IN  IF "min_dia" \in DOMAIN props
                               THEN Ok(thread @@
                                       [min_dia |-> Qty(props.min_dia, units("inch"))])
                               ELSE Ok(thread)

\* MetricThread.__init__ (fasteners.py)
MetricThread(t, size) ==
    LET idx == Loc(t, [i \in 1..Len(t) |-> t[i].size = size]) IN
    IF idx = {} THEN Raise("IndexError")
    ELSE LET props == RecordsFirst(t, idx) IN
         Ok([size |-> props.size,
             pitch |-> props.pitch,
             major_dia |-> Qty(props.major_dia, units("mm")),
             minor_dia |-> Qty(props.minor_dia, units("mm")),
             stress_area |-> Qty(props.stress_area, UnitSq(units("mm")))])

\* SteelScrewGrade.__init__ (fasteners.py)
SteelScrewGrade(t, grade) ==
    LET idx == Loc(t, [i \in 1..Len(t) |-> t[i].sae = grade]) IN
    IF idx = {} THEN Raise("IndexError")
    ELSE LET props == RecordsFirst(t, idx)
             pressure == IF props.unit = s_mm THEN units("MPa") ELSE units("ksi")
             length == IF props.unit = s_mm THEN units("mm") ELSE units("inch")
         IN  Ok([sae_grade |-> props.sae,
                 diameter_min |-> Qty(props.diameter_min, length),
                 tensile_strength |-> Qty(props.tensile_strength, pressure)])

\* ----------------------------------------------------------- registries

\* setattr(self, name, value) on the registry's __dict__: a new name is
\* appended, an existing name keeps its place and takes the new value
SetAttr(d, name, value) ==
    IF \E i \in 1..Len(d) : d[i].name = name
    THEN [i \in 1..Len(d) |-> IF d[i].name = name
                              THEN [name |-> name, rec |-> value] ELSE d[i]]
    ELSE Append(d, [name |-> name, rec |-> value])

HasAttr(d, name) == \E i \in 1..Len(d) : d[i].name = name
GetAttr(d, name) == d[CHOOSE i \in 1..Len(d) : d[i].name = name].rec

\* str(name) of a screw grade after "if name % 1 == 0: name = int(name)"
StrGrade(g) ==
    IF g % 10 = 0 THEN StrNat(g \div 10)
    ELSE StrNat(g \div 10) \o s_dot \o StrNat(g % 10)

\* the attribute name each registry constructor derives from a row
AttrName_BaseMetal(r) == Replace(Lower(r.metal), " ", s_us)
AttrName_CarbonSteel(r) == s_aisi \o StrNat(r.aisi) \o s_us \o Lower(r.treatment)
AttrName_StainlessSteel(r) ==
    s_aisi \o StrNat(r.aisi) \o s_us \o r.structure \o s_us \o r.treatment
AttrName_Polymer(r) ==
    Replace(Replace(Lower(r.base_resin \o s_us \o r.reinforcement), " ", s_us), "/", <<>>)
AttrName_UnifiedThread(r) ==
    s_thread_ \o Lower(Replace(Replace(r.size \o s_us \o r.fit_class, "-", s_us), " ", s_us))
AttrName_ScrewGrade(r) == s_sae_ \o Replace(StrGrade(r.sae), ".", s_us)

AttrName(c, r) ==
    CASE c = "base" -> AttrName_BaseMetal(r)
      [] c = "carbon" -> AttrName_CarbonSteel(r)
      [] c = "stainless" -> AttrName_StainlessSteel(r)
      [] c = "polymer" -> AttrName_Polymer(r)
      [] c = "thread" -> AttrName_UnifiedThread(r)
      [] c = "grade" -> AttrName_ScrewGrade(r)

\* the record each registry constructor builds for a row: it calls the
\* single-record builder with the row's key columns, which looks the row up
\* in the table again
RowRecord(c, t, r, u) ==
    CASE c = "base" -> Metal(t, r.metal, u)
      [] c = "carbon" -> CarbonSteel(t, r.aisi, r.treatment, u)
      [] c = "stainless" -> StainlessSteel(t, r.aisi, r.structure, r.treatment, u)
      [] c = "polymer" -> Polymer(t, r.base_resin, PyStr(r.reinforcement), u)
      [] c = "thread" -> UnifiedScrewThread(t, r.size, r.fit_class)
      [] c = "grade" -> SteelScrewGrade(t, r.sae)

RECURSIVE Fill(_, _, _, _, _)
\* the constructors' loop over the rows, from row i on with __dict__ d: an
\* exception of a builder leaves the constructor, and no registry exists
Fill(c, t, u, i, d) ==
    IF i > Len(t) THEN [status |-> "ok", dict |-> d]
    ELSE LET mat == RowRecord(c, t, t[i], u) IN
         IF mat.status # "ok" THEN [status |-> mat.status, dict |-> <<>>]
         ELSE Fill(c, t, u, i + 1, SetAttr(d, AttrName(c, t[i]), mat.rec))

\* BaseMetalRegistry / CarbonSteelRegistry / StainlessSteelRegistry /
\* PolymerRegistry / UnifiedThreadRegistry / ScrewGradeRegistry .__init__
RegistryInit(c, t, u) == Fill(c, t, u, 1, <<>>)

\* BaseMetalRegistry.tolist()
ToList(d) ==
    LET Public(e) == ~StartsWith(e.name, s_us)
        keep == SelectSeq(d, Public)
    IN  [i \in 1..Len(keep) |-> keep[i].name]

\* ---------------------------------------------------- registry operations

Result(op, args, status, out) ==
    [op |-> op, args |-> args, status |-> status, out |-> out]

\* a registry class is instantiated on the table
Registry ==
    /\ cat \in RegistryClasses
    /\ regState = "none"
    /\ LET r == RegistryInit(cat, table, unit) IN
       /\ regState' = IF r.status = "ok" THEN "built" ELSE "failed"
       /\ reg' = r.dict
       /\ res' = Result("Registry", <<>>, r.status, NoRecord)
    /\ UNCHANGED <<guardVars, quantityVars, designVars, cat, table, unit>>

\* MetricThreadRegistry.__init__: it reads unified_screw_threads.csv and
\* builds UnifiedScrewThread(name, fitclass) for each of its rows
MetricThreadRegistry ==
    /\ cat = "thread"
    /\ regState = "none"
    /\ LET r == RegistryInit("thread", table, unit) IN
       /\ regState' = IF r.status = "ok" THEN "built_metric" ELSE "failed"
       /\ reg' = r.dict
       /\ res' = Result("MetricThreadRegistry", <<>>, r.status, NoRecord)
    /\ UNCHANGED <<guardVars, quantityVars, designVars, cat, table, unit>>

\* positional arguments Metal.__init__ accepts besides self
Metal_max_args == 2

\* BaseMetalRegistry.add_base_metal(base_metal, density, modulus_elasticity,
\* modulus_rigidity, poissons_ratio): it calls Metal with all five
AddBaseMetal(d, t, base_metal) ==
    IF 5 > Metal_max_args THEN [status |-> "TypeError", dict |-> d]
    ELSE LET metal == Metal(t, base_metal, "density") IN
         IF metal.status # "ok" THEN [status |-> metal.status, dict |-> d]
         ELSE [status |-> "ok", dict |-> SetAttr(d, base_metal, metal.rec)]

\* the names a caller may pass to add_base_metal
s_unobtainium == <<"u","n","o","b","t","a","i","n","i","u","m">>
AddNames == {AttrName_BaseMetal(r) : r \in BaseMetalRows} \cup {s_unobtainium}

add_base_metal ==
    /\ cat = "base"
    /\ regState = "built"
    /\ \E base_metal \in AddNames :
         LET r == AddBaseMetal(reg, table, base_metal) IN
         /\ reg' = r.dict
         /\ res' = Result("add_base_metal", <<base_metal>>, r.status, NoRecord)
    /\ UNCHANGED <<guardVars, quantityVars, designVars, cat, table, unit, regState>>

\* UnifiedThreadRegistry.add_custom_thread(props): the body is `pass`
AddCustomThread(d, props) == [status |-> "ok", dict |-> d]

s_size_custom == <<"9","/","1","6","-","1","2"," ","U","N","C">>
CustomThreads ==
    UnifiedThreadRows \cup
        {[size |-> s_size_custom, fit_class |-> s_2A, max_major_dia |-> 5611]}

add_custom_thread ==
    /\ cat = "thread"
    /\ regState = "built"
    /\ \E props \in CustomThreads :
         LET r == AddCustomThread(reg, props) IN
         /\ reg' = r.dict
         /\ res' = Result("add_custom_thread", <<props>>, r.status, NoRecord)
    /\ UNCHANGED <<guardVars, quantityVars, designVars, cat, table, unit, regState>>

tolist ==
    /\ cat = "base"
    /\ regState = "built"
    /\ res' = Result("tolist", <<>>, "ok", ToList(reg))
    /\ UNCHANGED <<guardVars, quantityVars, designVars, cat, table, unit, reg, regState>>

\* ------------------------------------------------- single-record lookups

s_Zinc == <<"Z","i","n","c">>
new_Metal ==
    /\ cat = "base"
    /\ \E base_mat_alloy \in {r.metal : r \in BaseMetalRows} \cup {s_Zinc} :
         LET m == Metal(table, base_mat_alloy, unit) IN
         res' = Result("Metal", <<base_mat_alloy>>, m.status, m.rec)
    /\ UNCHANGED <<guardVars, quantityVars, designVars, cat, table, unit, reg, regState>>

new_CarbonSteel ==
    /\ cat = "carbon"
    /\ \E aisi \in {1015, 1020, 1030, 9999}, treatment \in {s_As_rolled, s_Normalized} :
         LET m == CarbonSteel(table, aisi, treatment, unit) IN
         res' = Result("CarbonSteel", <<aisi, treatment>>, m.status, m.rec)
    /\ UNCHANGED <<guardVars, quantityVars, designVars, cat, table, unit, reg, regState>>

new_StainlessSteel ==
    /\ cat = "stainless"
    /\ \E aisi \in {302, 410}, structure \in {s_austenitic, s_martensitic},
          treatment \in {s_annealed, s_cold_worked} :
         LET m == StainlessSteel(table, aisi, structure, treatment, unit) IN
         res' = Result("StainlessSteel", <<aisi, structure, treatment>>, m.status, m.rec)
    /\ UNCHANGED <<guardVars, quantityVars, designVars, cat, table, unit, reg, regState>>

new_GrayCastIron ==
    /\ cat = "gray"
    /\ \E astm \in {20, 45, 60} :
         LET m == GrayCastIron(table, astm, unit) IN
         res' = Result("GrayCastIron", <<astm>>, m.status, m.rec)
    /\ UNCHANGED <<guardVars, quantityVars, designVars, cat, table, unit, reg, regState>>

new_Polymer ==
    /\ cat = "polymer"
    /\ \E name \in {s_ABS, s_Nylon_6_12, s_Acetal}, reinforced \in BOOLEAN :
         LET m == Polymer(table, name, PyBool(reinforced), unit) IN
         res' = Result("Polymer", <<name, reinforced>>, m.status, m.rec)
    /\ UNCHANGED <<guardVars, quantityVars, designVars, cat, table, unit, reg, regState>>

s_size_other == <<"2","-","4"," ","1","/","4"," ","U","N","C">>
new_UnifiedScrewThread ==
    /\ cat = "thread"
    /\ \E size \in {r.size : r \in CustomThreads} \cup {s_size_other},
          fit_class \in {s_2A, s_3A} :
         LET m == UnifiedScrewThread(table, size, fit_class) IN
         res' = Result("UnifiedScrewThread", <<size, fit_class>>, m.status, m.rec)
    /\ UNCHANGED <<guardVars, quantityVars, designVars, cat, table, unit, reg, regState>>

s_size_M10 == <<"M","1","0"," ","X"," ","1",".","5">>
new_MetricThread ==
    /\ cat = "metric_thread"
    /\ \E size \in {s_size_nodash, s_size_M8, s_size_M10} :
         LET m == MetricThread(table, size) IN
         res' = Result("MetricThread", <<size>>, m.status, m.rec)
    /\ UNCHANGED <<guardVars, quantityVars, designVars, cat, table, unit, reg, regState>>

new_SteelScrewGrade ==
    /\ cat = "grade"
    /\ \E grade \in {50, 80, 98} :
         LET m == SteelScrewGrade(table, grade) IN
         res' = Result("SteelScrewGrade", <<grade>>, m.status, m.rec)
    /\ UNCHANGED <<guardVars, quantityVars, designVars, cat, table, unit, reg, regState>>

InitTables ==
    /\ call = NoCall
    /\ bodyRuns = 0
    /\ cat \in Categories
    /\ table \in Tables(cat)
    /\ unit \in UnitSelectors
    /\ reg = <<>>
    /\ regState = "none"
    /\ res = NoRegistry
    /\ calc = NoCalc
    /\ gear = NoGear

NextTables ==
    \/ Registry
    \/ MetricThreadRegistry
    \/ add_base_metal
    \/ add_custom_thread
    \/ tolist
    \/ new_Metal
    \/ new_CarbonSteel
    \/ new_StainlessSteel
    \/ new_Polymer
    \/ new_UnifiedScrewThread
    \/ new_MetricThread
    \/ new_SteelScrewGrade

SpecTables == InitTables /\ [][NextTables]_vars

\* ------------------------------------------- single records, row by row

\* a table read from a file that has no column col
DropColumn(r, col) == [f \in DOMAIN r \ {col} |-> r[f]]

\* the thread columns a data file may come without
DroppableThreadColumns == {"max_major_dia", "min_dia", "minor_dia"}

\* the rows a single record is built from: for threads also a size whose
\* threads-per-inch token is neither a number nor '4 1/2', and rows of
\* files lacking a column
BuildRows(c) ==
    IF c = "thread"
    THEN LET full == UnifiedThreadRows \cup
                         {[size |-> s_size_other, fit_class |-> s_2A,
                           max_major_dia |-> 20000, min_dia |-> 19000,
                           minor_dia |-> 17000]}
         IN  full \cup {DropColumn(r, col) : r \in full, col \in DroppableThreadColumns}
    ELSE RowsOf(c)

BuildCategories ==
    {"base", "carbon", "stainless", "polymer", "gray", "thread", "metric_thread"}

InitBuild ==
    /\ call = NoCall
    /\ bodyRuns = 0
    /\ cat \in BuildCategories
    /\ table \in {<<r>> : r \in BuildRows(cat)}
    /\ unit \in UnitSelectors
    /\ reg = <<>>
    /\ regState = "none"
    /\ res = NoRegistry
    /\ calc = NoCalc
    /\ gear = NoGear

NextBuild ==
    \/ new_Metal
    \/ new_CarbonSteel
    \/ new_StainlessSteel
    \/ new_GrayCastIron
    \/ new_Polymer
    \/ new_UnifiedScrewThread
    \/ new_MetricThread

SpecBuild == InitBuild /\ [][NextBuild]_vars

\* ---------------------------------------------------- pint quantities

\* Magnitudes are Python floats; the model keeps them as fractions n/d in
\* lowest terms with d > 0.
RECURSIVE Gcd(_, _)
Gcd(a, b) == IF b = 0 THEN a ELSE Gcd(b, a % b)

Abs(x) == IF x < 0 THEN -x ELSE x

Rat(n, d) ==
    LET g == Gcd(Abs(n), Abs(d))
        sgn == IF d < 0 THEN -1 ELSE 1
    IN  [n |-> sgn * (n \div g), d |-> sgn * (d \div g)]

RatMul(a, b) ==
    LET g1 == Gcd(Abs(a.n), b.d)
        g2 == Gcd(Abs(b.n), a.d)
    IN  IF a.n = 0 \/ b.n = 0 THEN Rat(0, 1)
        ELSE Rat((a.n \div g1) * (b.n \div g2), (a.d \div g2) * (b.d \div g1))

RatInv(a) == Rat(a.d, a.n)

RatAdd(a, b) ==
    LET g == Gcd(a.d, b.d) IN
    Rat(a.n * (b.d \div g) + b.n * (a.d \div g), (a.d \div g) * b.d)

RatNeg(a) == [n |-> -a.n, d |-> a.d]

\* a ** e for an integer exponent
RatPow(a, e) ==
    LET p[k \in 0..Abs(e)] == IF k = 0 THEN Rat(1, 1) ELSE RatMul(p[k - 1], a)
    IN  IF e >= 0 THEN p[e] ELSE RatInv(p[-e])

\* The units of pint's registry that mechapy/units.py binds and the record
\* builders and formula functions use: their dimension, their factor, and
\* for the two temperature scales their offset.  Factors are taken relative
\* to inch, force_pound, second and kelvin, a coherent set in which psi is
\* 1.  Factors are rounded to three figures (newton 0.225
\* force_pound, meter 39.4 inch, megapascal 145 psi) so that products stay
\* within 32-bit integers.
UnitNames ==
    {"inch", "foot", "meter", "square_inch", "milliliter", "newton", "kilonewton",
     "force_pound", "kilogram", "psi", "kilopsi", "megapsi", "megapascal",
     "gigapascal", "joule", "second", "degF", "degC", "delta_degF", "delta_degC",
     "radian", "degree"}

NameDim(n) ==
    CASE n \in {"inch", "foot", "meter"} -> LengthDim
      [] n = "square_inch" -> AreaDim
      [] n = "milliliter" -> VolumeDim
      [] n \in {"newton", "kilonewton", "force_pound"} -> ForceDim
      [] n = "kilogram" -> MassDim
      [] n \in {"psi", "kilopsi", "megapsi", "megapascal", "gigapascal"} -> PressureDim
      [] n = "joule" -> EnergyDim
      [] n = "second" -> TimeDim
      [] n \in {"degF", "degC", "delta_degF", "delta_degC"} -> TemperatureDim
      [] n \in {"radian", "degree"} -> Dimensionless

NameCoef(n) ==
    CASE n \in {"inch", "square_inch", "force_pound", "psi", "second"} -> Rat(1, 1)
      [] n = "foot" -> Rat(12, 1)
      [] n = "meter" -> Rat(197, 5)
      [] n = "milliliter" -> Rat(61, 1000)
      [] n = "newton" -> Rat(9, 40)
      [] n = "kilonewton" -> Rat(225, 1)
      [] n = "kilogram" -> Rat(57, 10000)
      [] n = "kilopsi" -> Rat(1000, 1)
      [] n = "megapsi" -> Rat(1000000, 1)
      [] n = "megapascal" -> Rat(145, 1)
      [] n = "gigapascal" -> Rat(145000, 1)
      [] n = "joule" -> Rat(1773, 200)
      [] n \in {"degC", "delta_degC", "radian"} -> Rat(1, 1)
      [] n = "degree" -> Rat(7, 401)
      [] n \in {"degF", "delta_degF"} -> Rat(5, 9)

\* degF and degC are offset units: kelvin = (x + offset) * factor
OffsetUnits == {"degF", "degC"}
NameOffset(n) ==
    CASE n = "degF" -> Rat(45967, 100)
      [] n = "degC" -> Rat(27315, 100)
      [] OTHER -> Rat(0, 1)

\* A unit is pint's UnitsContainer: unit names with non-zero exponents.
U(n) == [x \in {n} |-> 1]
NoUnit == [x \in {} |-> 0]
UExp(u, n) == IF n \in DOMAIN u THEN u[n] ELSE 0
UMul(a, b) ==
    [n \in {m \in DOMAIN a \cup DOMAIN b : UExp(a, m) + UExp(b, m) # 0} |->
        UExp(a, n) + UExp(b, n)]

UInv(a) == [n \in DOMAIN a |-> -a[n]]
UDiv(a, b) == UMul(a, UInv(b))

\* dimensionality and factor of a unit: the product over its names
UDim(u) ==
    LET f[S \in SUBSET DOMAIN u] ==
            IF S = {} THEN Dimensionless
            ELSE LET n == CHOOSE x \in S : TRUE
                 IN  DimMul(DimPow(NameDim(n), u[n]), f[S \ {n}])
    IN  f[DOMAIN u]

UCoef(u) ==
    LET f[S \in SUBSET DOMAIN u] ==
            IF S = {} THEN Rat(1, 1)
            ELSE LET n == CHOOSE x \in S : TRUE
                 IN  RatMul(RatPow(NameCoef(n), u[n]), f[S \ {n}])
    IN  f[DOMAIN u]

\* the offset unit of u, if u is one offset unit to the power 1
OffsetsIn(u) == DOMAIN u \cap OffsetUnits
UOffset(u) ==
    IF OffsetsIn(u) # {} /\ Cardinality(DOMAIN u) = 1
    THEN NameOffset(CHOOSE n \in DOMAIN u : TRUE) ELSE Rat(0, 1)

\* the pint unit each name of mechapy/units.py is bound to
UnitOf(n) ==
    CASE n = "lbf" -> U("force_pound")
      [] n \in {"newton", "newtons"} -> U("newton")
      [] n = "kN" -> U("kilonewton")
      [] n = "inch" -> U("inch")
      [] n = "foot" -> U("foot")
      [] n = "mm" -> U("milliliter")
      [] n = "sq_in" -> U("square_inch")
      [] n = "psi" -> U("psi")
      [] n = "ksi" -> U("kilopsi")
      [] n = "megapsi" -> U("megapsi")
      [] n \in {"MPa", "megapascal"} -> U("megapascal")
      [] n \in {"GPa", "gigapascal"} -> U("gigapascal")
      [] n \in {"joule", "joules"} -> U("joule")
      [] n = "ftlb" -> UMul(U("foot"), U("force_pound"))
      [] n = "degF" -> U("degF")
      [] n = "degC" -> U("degC")

QOk(q) == [status |-> "ok", out |-> q]
QErr(e) == [status |-> e, out |-> [missing |-> TRUE]]

\* Quantity.to(u) re-labelling the magnitude without any check
Quantity_to_Unchecked(q, u) == QOk(Qty(q.mag, u))

\* Quantity.to(u): DimensionalityError unless the dimensionalities agree,
\* otherwise (x + offset) * factor re-expressed in u
Quantity_to(q, u) ==
    IF UDim(q.unit) # UDim(u) THEN QErr("DimensionalityError")
    ELSE QOk(Qty(RatAdd(RatMul(RatAdd(q.mag, UOffset(q.unit)), UCoef(UDiv(q.unit, u))),
                        RatNeg(UOffset(u))),
                 u))

HasOffset(q) == OffsetsIn(q.unit) # {}

\* the delta unit pint renames an offset unit to
UDelta(u) == IF "degF" \in DOMAIN u THEN U("delta_degF") ELSE U("delta_degC")

\* Quantity.__mul__ and __truediv__: units combine, magnitudes multiply or
\* divide; an operand in an offset unit is refused
Quantity_mul(a, b) ==
    IF HasOffset(a) \/ HasOffset(b) THEN QErr("OffsetUnitCalculusError")
    ELSE QOk(Qty(RatMul(a.mag, b.mag), UMul(a.unit, b.unit)))

\* Quantity.__truediv__ refusing operands of different dimensions
Quantity_truediv_SameDimension(a, b) ==
    IF UDim(a.unit) # UDim(b.unit) THEN QErr("DimensionalityError")
    ELSE QOk(Qty(RatMul(a.mag, RatInv(b.mag)), UDiv(a.unit, b.unit)))

\* Quantity.__truediv__ combining the units as a product
Quantity_truediv_AsProduct(a, b) ==
    IF HasOffset(a) \/ HasOffset(b) THEN QErr("OffsetUnitCalculusError")
    ELSE QOk(Qty(RatMul(a.mag, RatInv(b.mag)), UMul(a.unit, b.unit)))

Quantity_truediv(a, b) ==
    IF HasOffset(a) \/ HasOffset(b) THEN QErr("OffsetUnitCalculusError")
    ELSE IF b.mag.n = 0 THEN QErr("ZeroDivisionError")
    ELSE QOk(Qty(RatMul(a.mag, RatInv(b.mag)), UDiv(a.unit, b.unit)))

\* Quantity._add_sub combining the magnitudes without converting the right
\* operand
Quantity_add_sub_Unconverted(a, b, sign) ==
    IF UDim(a.unit) # UDim(b.unit) THEN QErr("DimensionalityError")
    ELSE QOk(Qty(RatAdd(a.mag, IF sign = 1 THEN b.mag ELSE RatNeg(b.mag)), a.unit))

\* Quantity._add_sub with sign +1 (__add__) or -1 (__sub__)
Quantity_add_sub(a, b, sign) ==
    LET Signed(m) == IF sign = 1 THEN m ELSE RatNeg(m) IN
    IF UDim(a.unit) # UDim(b.unit) THEN QErr("DimensionalityError")
    ELSE IF ~HasOffset(a) /\ ~HasOffset(b)
    THEN QOk(Qty(RatAdd(a.mag, Signed(Quantity_to(b, a.unit).out.mag)), a.unit))
    ELSE IF HasOffset(a) /\ HasOffset(b)
    THEN IF sign = 1 THEN QErr("OffsetUnitCalculusError")
         ELSE QOk(Qty(RatAdd(a.mag, RatNeg(Quantity_to(b, a.unit).out.mag)),
                      UDelta(a.unit)))
    ELSE IF HasOffset(a)
    THEN QOk(Qty(RatAdd(a.mag, Signed(Quantity_to(b, UDelta(a.unit)).out.mag)), a.unit))
    ELSE IF sign = 1
    THEN QOk(Qty(RatAdd(Quantity_to(a, UDelta(b.unit)).out.mag, b.mag), b.unit))
    ELSE QErr("OffsetUnitCalculusError")

Quantity_add(a, b) == Quantity_add_sub(a, b, 1)
Quantity_sub(a, b) == Quantity_add_sub(a, b, -1)

\* the conversions of the record builders, as <<source unit, target unit>>:
\* Polymer's four under 'SI', CarbonSteel's izod under 'Imperial',
\* StainlessSteel's strengths and izod under 'SI'
BuilderConversions ==
    { <<UnitOf("ksi"), UnitOf("megapascal")>>,
      <<UnitOf("megapsi"), UnitOf("gigapascal")>>,
      <<UDiv(UnitOf("ftlb"), UnitOf("inch")), UnitOf("newtons")>>,
      <<UnitOf("degF"), UnitOf("degC")>>,
      <<UnitOf("joules"), UnitOf("ftlb")>>,
      <<UnitOf("ksi"), UnitOf("MPa")>>,
      <<UnitOf("ftlb"), UnitOf("joules")>> }

\* the Quantities operations are tried on
QuantityOperands ==
    { Qty(Rat(1000, 1), UnitOf("lbf")), Qty(Rat(100, 1), UnitOf("sq_in")),
      Qty(Rat(10, 1), UnitOf("psi")), Qty(Rat(2, 1), UnitOf("kN")),
      Qty(Rat(3, 1), UnitOf("newton")), Qty(Rat(6, 5), NoUnit),
      Qty(Rat(5, 1), UnitOf("inch")), Qty(Rat(1, 1), UnitOf("foot")),
      Qty(Rat(9, 1), UnitOf("ksi")), Qty(Rat(62, 1), UnitOf("MPa")),
      Qty(Rat(1, 2), UnitOf("megapsi")), Qty(Rat(7, 1), UnitOf("GPa")),
      Qty(Rat(2, 1), UDiv(UnitOf("ftlb"), UnitOf("inch"))),
      Qty(Rat(5, 1), UnitOf("joule")), Qty(Rat(3, 1), UnitOf("ftlb")),
      Qty(Rat(212, 1), UnitOf("degF")), Qty(Rat(100, 1), UnitOf("degC")) }

\* operations made in a row on one pair of operands
MaxOps == 2

\* the left operand of the next operation: the one drawn, or the result of
\* the operation before, as long as numerator and denominator of its
\* magnitude stay below MaxMagnitude
MaxMagnitude == 100000
InRange(q) == Abs(q.mag.n) <= MaxMagnitude /\ q.mag.d <= MaxMagnitude
LeftOperands ==
    {calc.left} \cup (IF calc.status = "ok" /\ InRange(calc.out) THEN {calc.out} ELSE {})

Operate(op, on, r) ==
    /\ calc.n < MaxOps
    /\ calc' = [calc EXCEPT !.op = op, !.on = on, !.status = r.status,
                            !.out = r.out, !.n = @ + 1]
    /\ UNCHANGED <<guardVars, tableVars, designVars>>

multiply == \E a \in LeftOperands : Operate("multiply", a, Quantity_mul(a, calc.right))
divide == \E a \in LeftOperands : Operate("divide", a, Quantity_truediv(a, calc.right))
add == \E a \in LeftOperands : Operate("add", a, Quantity_add(a, calc.right))
subtract == \E a \in LeftOperands : Operate("subtract", a, Quantity_sub(a, calc.right))
to == \E a \in LeftOperands : Operate("to", a, Quantity_to(a, calc.right.unit))

InitQuantity ==
    /\ call = NoCall
    /\ bodyRuns = 0
    /\ cat = "none"
    /\ table = <<>>
    /\ unit = "SI"
    /\ reg = <<>>
    /\ regState = "none"
    /\ res = NoRegistry
    /\ gear = NoGear
    /\ \E a \in QuantityOperands, b \in QuantityOperands :
         calc = [op |-> "none", left |-> a, right |-> b, on |-> a,
                 status |-> "none", out |-> [missing |-> TRUE], n |-> 0]

NextQuantity == multiply \/ divide \/ add \/ subtract \/ to

SpecQuantity == InitQuantity /\ [][NextQuantity]_vars

\* ------------------------------------------------- design/gears.py values

\* A Python value handed to a gear or section class: a plain number, or a
\* pint Quantity with magnitude and unit.
PyNum(m) == [q |-> FALSE, mag |-> m, unit |-> NoUnit]
PyQty(m, u) == [q |-> TRUE, mag |-> m, unit |-> u]

PyOk(v) == [status |-> "ok", out |-> v]
PyRaise(e) == [status |-> e, out |-> [missing |-> TRUE]]

\* '[length]' in dict(ureg.get_dimensionality(v)): the dimensionality has
\* an entry for length, whatever its exponent; a plain number has none
HasLengthEntry(v) == v.q /\ UDim(v.unit).L # 0

\* a / b of plain numbers and Quantities
PyDiv(a, b) ==
    IF b.mag.n = 0 THEN PyRaise("ZeroDivisionError")
    ELSE PyOk([q |-> a.q \/ b.q, mag |-> RatMul(a.mag, RatInv(b.mag)),
               unit |-> UDiv(a.unit, b.unit)])

\* a + b of Quantities
PyAdd(a, b) ==
    IF UDim(a.unit) # UDim(b.unit) THEN PyRaise("DimensionalityError")
    ELSE PyOk([q |-> a.q \/ b.q,
               mag |-> RatAdd(a.mag, Quantity_to(b, a.unit).out.mag),
               unit |-> a.unit])

\* value.to(ureg.radians): a plain number has no attribute 'to'
ToRadians(v) ==
    IF ~v.q THEN PyRaise("AttributeError")
    ELSE LET r == Quantity_to(v, U("radian")) IN
         IF r.status # "ok" THEN PyRaise(r.status)
         ELSE PyOk(PyQty(r.out.mag, r.out.unit))

\* float(q) of a dimensionless Quantity, as math.cos and math.tan take it:
\* the magnitude in radians
Float(v) == Quantity_to(v, U("radian")).out.mag

\* math.pi, to six figures
Pi == Rat(355, 113)

\* the numerator of each attribute _calcs derives as numerator / P, for N
\* teeth
DerivedNames ==
    {"circular_pitch", "addendum", "dedendum", "dedendum_shaved", "working_depth",
     "whole_depth", "whole_depth_shaved", "clearance", "clearance_shaved",
     "outside_dia", "root_dia", "root_dia_shaved", "circular_thickness_basic"}

Numerator(name, N) ==
    CASE name = "circular_pitch" -> Pi
      [] name = "addendum" -> Rat(1, 1)
      [] name = "dedendum" -> Rat(125, 100)
      [] name = "dedendum_shaved" -> Rat(135, 100)
      [] name = "working_depth" -> Rat(2, 1)
      [] name = "whole_depth" -> Rat(225, 100)
      [] name = "whole_depth_shaved" -> Rat(235, 100)
      [] name = "clearance" -> Rat(25, 100)
      [] name = "clearance_shaved" -> Rat(35, 100)
      [] name = "outside_dia" -> RatAdd(Rat(N, 1), Rat(2, 1))
      [] name = "root_dia" -> RatAdd(Rat(N, 1), RatNeg(Rat(25, 10)))
      [] name = "root_dia_shaved" -> RatAdd(Rat(N, 1), RatNeg(Rat(27, 10)))
      [] name = "circular_thickness_basic" -> Rat(15708, 10000)

\* the attributes HelicalGear._calcs derives with the helix angle besides:
\* the value the trigonometric function is combined with, the function and
\* its argument in radians
HelicalNames ==
    {"norm_diametral_pitch", "norm_circular_pitch", "axial_pitch", "norm_module"}

Trig(v, op, fn, beta) == [of |-> v, op |-> op, fn |-> fn, angle |-> Float(beta)]

\* SpurGear._calcs / HelicalGear._calcs on object g: the attributes are
\* assigned one after the other, so an exception leaves those before it
\* assigned and those after it as they were
Calcs(g) ==
    LET P == PyDiv(PyNum(Rat(g._num_teeth, 1)), g._pitch_dia) IN
    IF P.status # "ok" THEN [status |-> P.status, obj |-> g]
    ELSE LET g1 == [g EXCEPT !.d = [n \in {"diametral_pitch"} |-> P.out] @@ @] IN
         IF P.out.mag.n = 0 THEN [status |-> "ZeroDivisionError", obj |-> g1]
         ELSE LET over == [n \in DerivedNames |->
                               PyDiv(PyNum(Numerator(n, g._num_teeth)), P.out).out]
                  helical ==
                      [n \in HelicalNames |->
                          CASE n = "norm_diametral_pitch" ->
                                   Trig(P.out, "div", "cos", g._beta)
                            [] n = "norm_circular_pitch" ->
                                   Trig(over["circular_pitch"], "mul", "cos", g._beta)
                            [] n = "axial_pitch" ->
                                   Trig(over["circular_pitch"], "div", "tan", g._beta)
                            [] n = "norm_module" ->
                                   Trig(over["addendum"], "div", "cos", g._beta)]
              IN  [status |-> "ok",
                   obj |-> [g EXCEPT !.d =
                               IF g.cls = "HelicalGear"
                               THEN [n \in {"diametral_pitch"} |-> P.out] @@ over @@ helical
                               ELSE [n \in {"diametral_pitch"} |-> P.out] @@ over]]

NoDerived == [n \in {} |-> 0]

\* Gear.__init__
Gear(pitch_dia, num_teeth) ==
    IF ~HasLengthEntry(pitch_dia) THEN [status |-> "AttributeError", obj |-> NoGear]
    ELSE [status |-> "ok",
          obj |-> [cls |-> "Gear", _pitch_dia |-> pitch_dia, _num_teeth |-> num_teeth,
                   d |-> NoDerived]]

\* SpurGear.__init__: an exception of _calcs leaves the constructor, and no
\* object exists
SpurGear(pitch_dia, num_teeth, thickness) ==
    IF ~HasLengthEntry(pitch_dia) \/ ~HasLengthEntry(thickness)
    THEN [status |-> "AttributeError", obj |-> NoGear]
    ELSE LET c == Calcs([cls |-> "SpurGear", _pitch_dia |-> pitch_dia,
                         _num_teeth |-> num_teeth, thickness |-> thickness,
                         d |-> NoDerived])
         IN  IF c.status = "ok" THEN c ELSE [status |-> c.status, obj |-> NoGear]

\* HelicalGear.__init__
HelicalGear(pitch_dia, num_teeth, thickness, beta) ==
    IF ~HasLengthEntry(pitch_dia) \/ ~HasLengthEntry(thickness)
    THEN [status |-> "AttributeError", obj |-> NoGear]
    ELSE IF ToRadians(beta).status # "ok"
    THEN [status |-> ToRadians(beta).status, obj |-> NoGear]
    ELSE LET c == Calcs([cls |-> "HelicalGear", _pitch_dia |-> pitch_dia,
                         _num_teeth |-> num_teeth, thickness |-> thickness,
                         _beta |-> ToRadians(beta).out, d |-> NoDerived])
         IN  IF c.status = "ok" THEN c ELSE [status |-> c.status, obj |-> NoGear]

\* the setters: Gear's assign the attribute; SpurGear's and HelicalGear's
\* assign it through Gear's setter and then run _calcs
SetNumTeeth(g, value) ==
    LET g1 == [g EXCEPT !._num_teeth = value] IN
    IF g.cls = "Gear" THEN [status |-> "ok", obj |-> g1] ELSE Calcs(g1)

SetPitchDia(g, value) ==
    LET g1 == [g EXCEPT !._pitch_dia = value] IN
    IF g.cls = "Gear" THEN [status |-> "ok", obj |-> g1] ELSE Calcs(g1)

\* HelicalGear.beta setter: value.to(ureg.radians) is computed, and value
\* itself is stored
SetBeta(g, value) ==
    IF ToRadians(value).status # "ok"
    THEN [status |-> ToRadians(value).status, obj |-> g]
    ELSE Calcs([g EXCEPT !._beta = value])

\* ------------------------------------------------------ gear operations

\* the arguments a caller may pass
TeethArgs == {0, 20, 40}
DiaArgs ==
    { PyQty(Rat(4, 1), U("inch")), PyQty(Rat(1, 1), U("foot")),
      PyQty(Rat(0, 1), U("inch")), PyQty(Rat(4, 1), U("square_inch")),
      PyQty(Rat(2, 1), UDiv(U("inch"), U("second"))), PyNum(Rat(5, 1)) }
ThicknessArgs == {PyQty(Rat(1, 1), U("inch")), PyNum(Rat(1, 1))}
BetaArgs ==
    { PyQty(Rat(20, 1), U("degree")), PyQty(Rat(1, 4), U("radian")),
      PyQty(Rat(5, 1), U("inch")), PyNum(Rat(15, 1)) }

\* a constructor or setter has run: the object it leaves and its outcome
Designed(op, args, r) ==
    /\ gear' = r.obj
    /\ res' = Result(op, args, r.status, NoRecord)
    /\ UNCHANGED <<guardVars, quantityVars, cat, table, unit, reg, regState>>

new_Gear ==
    /\ gear = NoGear
    /\ \E pitch_dia \in DiaArgs, num_teeth \in TeethArgs :
         Designed("Gear", <<pitch_dia, num_teeth>>, Gear(pitch_dia, num_teeth))

new_SpurGear ==
    /\ gear = NoGear
    /\ \E pitch_dia \in DiaArgs, num_teeth \in TeethArgs, thickness \in ThicknessArgs :
         Designed("SpurGear", <<pitch_dia, num_teeth, thickness>>,
                  SpurGear(pitch_dia, num_teeth, thickness))

new_HelicalGear ==
    /\ gear = NoGear
    /\ \E pitch_dia \in DiaArgs, num_teeth \in TeethArgs, thickness \in ThicknessArgs,
          beta \in BetaArgs :
         Designed("HelicalGear", <<pitch_dia, num_teeth, thickness, beta>>,
                  HelicalGear(pitch_dia, num_teeth, thickness, beta))

set_num_teeth ==
    /\ gear # NoGear
    /\ \E value \in TeethArgs :
         Designed("num_teeth", <<PyNum(Rat(value, 1))>>, SetNumTeeth(gear, value))

set_pitch_dia ==
    /\ gear # NoGear
    /\ \E value \in DiaArgs :
         Designed("pitch_dia", <<value>>, SetPitchDia(gear, value))

set_beta ==
    /\ gear # NoGear
    /\ gear.cls = "HelicalGear"
    /\ \E value \in BetaArgs :
         Designed("beta", <<value>>, SetBeta(gear, value))

InitDesign ==
    /\ call = NoCall
    /\ bodyRuns = 0
    /\ cat = "none"
    /\ table = <<>>
    /\ unit = "SI"
    /\ reg = <<>>
    /\ regState = "none"
    /\ res = NoRegistry
    /\ calc = NoCalc
    /\ gear = NoGear

NextDesign ==
    \/ new_Gear
    \/ new_SpurGear
    \/ new_HelicalGear
    \/ set_num_teeth
    \/ set_pitch_dia
    \/ set_beta

SpecDesign == InitDesign /\ [][NextDesign]_vars

\* ------------------------------------- gear pairs, screws and sections

\* the classes an object of class c is an instance of
Mro(c) ==
    CASE c \in {"SpurGear", "HelicalGear"} -> {c, "Gear", "object"}
      [] c = "type" -> {"type", "object"}
      [] OTHER -> {c, "object"}

\* isinstance(obj, c)
IsInstance(obj, c) == c \in Mro(obj.cls)

\* gears to pair the run's gear with
GearStock ==
    { SpurGear(PyQty(Rat(1, 1), U("foot")), 40, PyQty(Rat(1, 1), U("inch"))).obj,
      HelicalGear(PyQty(Rat(4, 1), U("inch")), 20, PyQty(Rat(1, 1), U("inch")),
                  PyQty(Rat(20, 1), U("degree"))).obj,
      Gear(PyQty(Rat(4, 1), U("inch")), 20).obj }

\* GearPair.__init__
GearPair(pinion, g, driving_speed) ==
    IF ~IsInstance(pinion, "SpurGear") \/ ~IsInstance(g, "SpurGear")
    THEN Raise("TypeError")
    ELSE LET ratio == PyDiv(PyNum(Rat(pinion._num_teeth, 1)), PyNum(Rat(g._num_teeth, 1)))
             sum == PyAdd(pinion._pitch_dia, g._pitch_dia)
         IN  IF ratio.status # "ok" THEN Raise(ratio.status)
             ELSE IF sum.status # "ok" THEN Raise(sum.status)
             ELSE Ok([pinion |-> pinion, gear |-> g, _driving_speed |-> driving_speed,
                      driven_speed |->
                          [driving_speed EXCEPT !.mag = RatMul(@, ratio.out.mag)],
                      center_distance |->
                          [sum.out EXCEPT !.mag = RatMul(@, Rat(1, 2))]])

\* the thread objects a Screw may be given, and the class object MetricThread
ThreadArgs == {[cls |-> "MetricThread"], [cls |-> "UnifiedScrewThread"], [cls |-> "str"]}
MetricThreadClass == [cls |-> "type"]

\* Screw.__init__: the test is isinstance(MetricThread, UnifiedScrewThread),
\* made on the class MetricThread and not on the argument
Screw(thread, grade, length) ==
    IF ~IsInstance(MetricThreadClass, "UnifiedScrewThread") THEN Raise("TypeError")
    ELSE Ok([thread |-> thread, grade |-> grade, length |-> length])

\* Rectangle.__init__ and Circle.__init__ (sections.py), with the
\* attributes that are a multiple of one argument
Rectangle(height, base) ==
    IF ~HasLengthEntry(height) \/ ~HasLengthEntry(base) THEN Raise("AttributeError")
    ELSE Ok([radius_gyration |-> [height EXCEPT !.mag = RatMul(@, Rat(289, 1000))],
             centroidal_dist |-> [height EXCEPT !.mag = RatMul(@, Rat(1, 2))]])

Circle(diameter) ==
    IF ~HasLengthEntry(diameter) THEN Raise("AttributeError")
    ELSE Ok([area |-> [diameter EXCEPT !.mag = RatMul(@, Pi)],
             radius_gyration |-> [diameter EXCEPT !.mag = RatMul(@, Rat(1, 4))]])

\* rows of rolledshape_section_props.csv
s_W8 == <<"W","8","X","3","1">>
s_S3 == <<"S","3","X","5",".","7">>
s_C6 == <<"C","6","X","1","3">>
s_L4 == <<"L","4","X","4","X","1","/","2">>
RolledSectionTable ==
    << [designation |-> s_W8, units |-> s_inch], [designation |-> s_S3, units |-> s_mm],
       [designation |-> s_C6, units |-> s_inch], [designation |-> s_L4, units |-> s_mm] >>

\* str.upper() and the substring test
UpperChar(c) ==
    IF IsLower(c)
    THEN UpperCase[CHOOSE i \in 1..Len(LowerCase) : LowerCase[i] = c]
    ELSE c
Upper(s) == [i \in 1..Len(s) |-> UpperChar(s[i])]
Contains(s, sub) == FindFrom(s, sub, 1) # 0

\* a pandas Series of bool compared with a str: no element is equal to it
BoolEqualsStr(b, s) == FALSE

\* the rows of t at the positions idx, in row order
Rows(t, idx) == SelectSeq([i \in 1..Len(t) |-> [pos |-> i, row |-> t[i]]],
                          LAMBDA e : e.pos \in idx)

s_all == <<"a","l","l">>
s_WSCL == <<"W","S","C","L">>

\* rolled_sections_df(kind, units): the for loop over 'WSCL' has no break,
\* so its else clause runs whenever the loop has run
RolledSectionsDf(t, kind, u) ==
    LET dropped == {i \in 1..Len(s_WSCL) : ~Contains(Upper(kind), <<s_WSCL[i]>>)}
        byKind == {i \in 1..Len(t) :
                      \A l \in dropped : ~Contains(t[i].designation, <<s_WSCL[l]>>)}
        loopBroke == FALSE
    IN  IF kind # s_all /\ ~loopBroke THEN Raise("NameError")
        ELSE IF u \in {s_mm, s_inch}
        THEN Ok(Rows(t, {i \in 1..Len(t) : BoolEqualsStr(Contains(t[i].units, u), u)}))
        ELSE IF u = s_all THEN Ok(Rows(t, 1..Len(t)))
        ELSE Raise("NameError")

\* ------------------------------------------------------ part operations

\* the gear built in this run, if any, and the stock
GearsAtHand == (IF gear = NoGear THEN {} ELSE {gear}) \cup GearStock

new_GearPair ==
    \E pinion \in GearsAtHand, g \in GearsAtHand,
       driving_speed \in {PyNum(Rat(100, 1))} :
        LET m == GearPair(pinion, g, driving_speed) IN
        /\ res' = Result("GearPair", <<pinion, g, driving_speed>>, m.status, m.rec)
        /\ UNCHANGED <<guardVars, quantityVars, designVars, cat, table, unit, reg, regState>>

new_Screw ==
    \E thread \in ThreadArgs, grade \in {50, 98}, length \in {PyQty(Rat(2, 1), U("inch"))} :
        LET m == Screw(thread, grade, length) IN
        /\ res' = Result("Screw", <<thread, grade, length>>, m.status, m.rec)
        /\ UNCHANGED <<guardVars, quantityVars, designVars, cat, table, unit, reg, regState>>

BaseArgs == {PyQty(Rat(4, 1), U("inch")), PyQty(Rat(4, 1), U("square_inch"))}

new_Rectangle ==
    \E height \in DiaArgs, base \in BaseArgs :
        LET m == Rectangle(height, base) IN
        /\ res' = Result("Rectangle", <<height, base>>, m.status, m.rec)
        /\ UNCHANGED <<guardVars, quantityVars, designVars, cat, table, unit, reg, regState>>

new_Circle ==
    \E diameter \in DiaArgs :
        LET m == Circle(diameter) IN
        /\ res' = Result("Circle", <<diameter>>, m.status, m.rec)
        /\ UNCHANGED <<guardVars, quantityVars, designVars, cat, table, unit, reg, regState>>

\* the kind and units arguments a caller may pass
s_w == <<"w">>
s_WS == <<"W","S">>
s_wscl == <<"w","s","c","l">>
s_x == <<"x">>
s_cm == <<"c","m">>
KindArgs_rolled == {s_all, s_w, s_WS, s_wscl, s_x}
UnitsArgs_rolled == {s_all, s_mm, s_inch, s_cm}

rolled_sections_df ==
    /\ cat = "rolled"
    /\ \E kind \in KindArgs_rolled, units_ \in UnitsArgs_rolled :
         LET m == RolledSectionsDf(table, kind, units_) IN
         res' = Result("rolled_sections_df", <<kind, units_>>, m.status, m.rec)
    /\ UNCHANGED <<guardVars, quantityVars, designVars, cat, table, unit, reg, regState>>

InitParts ==
    /\ call = NoCall
    /\ bodyRuns = 0
    /\ cat = "rolled"
    /\ table = RolledSectionTable
    /\ unit = "SI"
    /\ reg = <<>>
    /\ regState = "none"
    /\ res = NoRegistry
    /\ calc = NoCalc
    /\ gear = NoGear

NextParts ==
    \/ new_Gear
    \/ new_SpurGear
    \/ new_HelicalGear
    \/ new_GearPair
    \/ new_Screw
    \/ new_Rectangle
    \/ new_Circle
    \/ rolled_sections_df

SpecParts == InitParts /\ [][NextParts]_vars

\* ================================================================ claims

\* some checked position of fn's signature is given an argument that is not
\* a Quantity of exactly that dimension
ArgMismatch(fn, args) ==
    \E i \in 1..Len(args) :
        /\ i <= Len(Signature(fn))
        /\ Signature(fn)[i] # None
        /\ ~(args[i].kind = "Q" /\ args[i].dim = Signature(fn)[i])

AllQuantities(args) == \A i \in 1..Len(args) : args[i].kind = "Q"

\* C1: a call of a guarded function with an argument whose dimension differs
\* from its signature entry fails with a dimension-mismatch error before the
\* body executes: the side-effect counter is left as it was.
C1_GuardRejectsBeforeBody ==
    [][ArgMismatch(call'.fn, call'.args) =>
           /\ bodyRuns' = bodyRuns
           /\ ~call'.ran
           /\ call'.status \in {"DimensionalityError", "AttributeError"}
           /\ (AllQuantities(call'.args) => call'.status = "DimensionalityError")]_vars

\* C1 witness: mass_rod was called with a force as density, was rejected,
\* and the counter is still zero
C1_Witness ==
    /\ call.fn = "mass_rod"
    /\ call.args = <<Q(LengthDim), Q(LengthDim), Q(ForceDim)>>
    /\ call.status = "DimensionalityError"
    /\ bodyRuns = 0

\* C2: a None entry leaves its position unconstrained: whatever is passed
\* there, the guard raises nothing when the checked positions match, and
\* the body runs.
C2_NoneEntryUnconstrained ==
    /\ (call.fn = "stress_true" /\ call.args[1] = Q(ForceDim) /\ call.args[2] = Q(AreaDim))
           => call.ran
    /\ (call.fn = "bearing_life_revs" /\ call.args[1] = Q(ForceDim)
          /\ call.args[2] = Q(ForceDim))
           => call.ran
    /\ (call.fn = "dynamic_equiv_rad_load" /\ call.args[1] = Q(ForceDim)
          /\ call.args[2] = Q(ForceDim))
           => call.ran

\* C2 witness: stress_true ran with a Quantity as strain, and
\* dynamic_equiv_rad_load style free positions take plain numbers as well
C2_Witness ==
    /\ call.fn = "stress_true"
    /\ IsQuantity(call.args[3])
    /\ call.ran

\* the registry name an extension operation was called with
AddedName(r) ==
    IF r.op = "add_base_metal" THEN r.args[1] ELSE AttrName_UnifiedThread(r.args[1])

IsAdd(r) == r.op \in {"add_base_metal", "add_custom_thread"}

\* C3: the extension operation called with a name already in the registry
\* fails (it raises, DuplicateKey by name) and leaves the record stored
\* under that name unchanged.
C3_DuplicateKeyRejected ==
    [][(IsAdd(res') /\ HasAttr(reg, AddedName(res'))) =>
           /\ res'.status # "ok"
           /\ HasAttr(reg', AddedName(res'))
           /\ GetAttr(reg', AddedName(res')) = GetAttr(reg, AddedName(res'))]_vars

\* C4: the extension operation called with a name not yet in the registry
\* inserts exactly one entry under that name and keeps every other entry.
C4_AddInsertsOne ==
    [][(IsAdd(res') /\ ~HasAttr(reg, AddedName(res'))) =>
           /\ Len(reg') = Len(reg) + 1
           /\ reg'[Len(reg')].name = AddedName(res')
           /\ SubSeq(reg', 1, Len(reg)) = reg]_vars

\* two different rows of the table derive the same registry name
Collides(c, t) ==
    \E i, j \in 1..Len(t) :
        i < j /\ t[i] # t[j] /\ AttrName(c, t[i]) = AttrName(c, t[j])

\* C5: construction over a table in which two rows derive the same name
\* fails (DuplicateDerivedName): no registry is returned that silently keeps
\* one of the colliding rows.
C5_DuplicateDerivedNameRejected ==
    regState = "built" => ~Collides(cat, table)

NormalChar(c) == IsLower(c) \/ IsDigit(c) \/ c = "_"

\* C6: every name a registry derives holds only lower-case letters, digits
\* and the separator.
C6_NamesNormalized ==
    \A i \in 1..Len(reg) : \A k \in 1..Len(reg[i].name) : NormalChar(reg[i].name[k])

\* C7: the listing holds each key once, in insertion order, which after
\* construction is the row order: the i-th name is the i-th row's name.
C7_ListingInRowOrder ==
    res.op = "tolist" =>
        /\ Len(res.out) = Len(table)
        /\ \A i \in 1..Len(table) : res.out[i] = AttrName_BaseMetal(table[i])

\* the strength a carbon steel or screw grade row documents
RowStrength(c, r) == IF c = "carbon" THEN r.ts_mpa ELSE r.tensile_strength

\* C8: construction builds one record per row: the record stored under a
\* row's derived name carries that row's values, also when several rows
\* share a lookup key (carbon steel in SI, and screw grades).
C8_RecordPerRow ==
    (regState = "built" /\ (cat = "grade" \/ (cat = "carbon" /\ unit = "SI"))) =>
        \A i \in 1..Len(table) :
            /\ HasAttr(reg, AttrName(cat, table[i]))
            /\ GetAttr(reg, AttrName(cat, table[i])).tensile_strength.mag
                   = RowStrength(cat, table[i])

IsLookup(r) ==
    r.op \in {"Metal", "CarbonSteel", "StainlessSteel", "Polymer",
              "GrayCastIron", "UnifiedScrewThread", "MetricThread", "SteelScrewGrade"}

\* the rows of t the key predicates of lookup r select
KeyMatches(r, t) ==
    {i \in 1..Len(t) :
        CASE r.op = "Metal" -> t[i].metal = r.args[1]
          [] r.op = "CarbonSteel" -> t[i].aisi = r.args[1] /\ t[i].treatment = r.args[2]
          [] r.op = "StainlessSteel" ->
                 /\ t[i].aisi = r.args[1]
                 /\ t[i].structure = r.args[2]
                 /\ t[i].treatment = r.args[3]
          [] r.op = "Polymer" ->
                 /\ t[i].base_resin = r.args[1]
                 /\ t[i].reinforcement =
                        (IF r.args[2] THEN s_glass_reinforced ELSE s_unreinforced)
          [] r.op = "UnifiedScrewThread" ->
                 t[i].size = r.args[1] /\ t[i].fit_class = r.args[2]
          [] r.op = "GrayCastIron" -> t[i].astm = r.args[1]
          [] r.op = "MetricThread" -> t[i].size = r.args[1]
          [] r.op = "SteelScrewGrade" -> t[i].sae = r.args[1]}

\* C9: a single-record lookup whose key predicates match no row of the
\* table fails with an error and returns no record.
C9_NoMatchFails ==
    (IsLookup(res) /\ KeyMatches(res, table) = {}) =>
        /\ res.status \in {"IndexError", "ValueError", "NameError"}
        /\ res.out = NoRecord

\* C9 witness: an allowed AISI number with a treatment no row has
C9_Witness ==
    /\ res.op = "CarbonSteel"
    /\ res.args = <<1015, s_Normalized>>
    /\ Len(table) > 0
    /\ res.status = "IndexError"

\* the looked-up record carries the values of row r
FromRow(r, row) ==
    CASE r.op = "CarbonSteel" ->
             "tensile_strength" \in DOMAIN r.out =>
                 r.out.tensile_strength.mag = row.ts_mpa
      [] r.op = "SteelScrewGrade" ->
             /\ r.out.tensile_strength.mag = row.tensile_strength
             /\ r.out.diameter_min.mag = row.diameter_min
      [] r.op = "UnifiedScrewThread" -> r.out.major_dia.mag = row.max_major_dia
      [] r.op = "MetricThread" ->
             /\ r.out.major_dia.mag = row.major_dia
             /\ r.out.stress_area.mag = row.stress_area
      [] r.op = "StainlessSteel" ->
             r.out.tensile_strength.mag
                 \in {row.uts_ksi, To(Qty(row.uts_ksi, units("ksi")), units("MPa")).mag}
      [] r.op = "Polymer" ->
             r.out.tensile_strength.mag
                 \in {row.tensile_strength_ksi,
                      To(Qty(row.tensile_strength_ksi, units("ksi")), units("MPa")).mag}
      [] r.op = "Metal" -> r.out.poissons_ratio = row.nu

FirstOf(idx) == CHOOSE i \in idx : \A j \in idx : i <= j

MaterialOps == {"Metal", "CarbonSteel", "StainlessSteel", "GrayCastIron", "Polymer"}

\* C11: a material record built with a selector other than 'SI' or
\* 'Imperial' fails with an error, and no record is produced.
C11_UnknownSelectorRejected ==
    (res.op \in MaterialOps /\ unit \notin {"SI", "Imperial"}) =>
        /\ res.status # "ok"
        /\ res.out = NoRecord

\* the key of lookup r passes the class's own validation of its arguments
KeyAllowed(r) ==
    CASE r.op = "CarbonSteel" ->
             r.args[1] \in aisi_specs_carbon /\ r.args[2] \in treatments_carbon
      [] r.op = "StainlessSteel" ->
             /\ r.args[1] \in aisi_specs_stainless
             /\ r.args[2] \in structures_stainless
             /\ r.args[3] \in treatments_stainless
      [] r.op = "GrayCastIron" -> r.args[1] \in astm_specs
      [] OTHER -> TRUE

\* the record of lookup r takes its Quantities from row's columns of unit
\* system u, in that system's units
SystemColumns(r, row, u) ==
    CASE r.op = "Metal" ->
             r.out.mod_elast = (IF u = "SI" THEN Qty(row.e_gpa, "gigapascal")
                                ELSE Qty(row.e_mpsi, "megapsi"))
      [] r.op \in {"CarbonSteel", "GrayCastIron"} ->
             r.out.tensile_strength = (IF u = "SI" THEN Qty(row.ts_mpa, "megapascal")
                                       ELSE Qty(row.ts_ksi, "kilopsi"))
      [] r.op = "StainlessSteel" ->
             r.out.tensile_strength.unit = (IF u = "SI" THEN "megapascal" ELSE "kilopsi")

\* C12: for SI and for Imperial, building a metal record whose row is in
\* the table succeeds, and its Quantities come from that system's columns
\* in that system's units.
C12_BothSystemsBuild ==
    (/\ res.op \in MaterialOps \ {"Polymer"}
     /\ unit \in {"SI", "Imperial"}
     /\ KeyAllowed(res)
     /\ KeyMatches(res, table) # {}) =>
        /\ res.status = "ok"
        /\ SystemColumns(res, table[FirstOf(KeyMatches(res, table))], unit)

\* the attributes the CarbonSteel class documents
CarbonSteelAttributes ==
    {"tensile_strength", "yield_strength", "elongation_pct", "brinell_hardness"}

\* C13: every CarbonSteel record exposes the same attributes, whatever the
\* selector it was built with.
C13_FixedAttributeSet ==
    (res.op = "CarbonSteel" /\ res.status = "ok") =>
        CarbonSteelAttributes \subseteq DOMAIN res.out

\* C14: a thread record built from a row lacking a column the class reads
\* fails; it is not returned without the attribute.
C14_MissingColumnFails ==
    (/\ res.op = "UnifiedScrewThread"
     /\ KeyMatches(res, table) # {}
     /\ ~((ThreadColumnsRead \cup {"min_dia"})
              \subseteq DOMAIN table[FirstOf(KeyMatches(res, table))])) =>
        res.status # "ok"

\* the threads-per-inch token of a size holding a '-'
TpiToken(size) == Split(Split(size, s_dash)[2], s_spU)[1]

\* C15: a threads-per-inch token float() cannot parse is accepted only if
\* it is '4 1/2', giving 4.5; any other one fails the construction, and a
\* parsed token gives its own value.
C15_OnlyDocumentedIrregularValue ==
    (/\ res.op = "UnifiedScrewThread"
     /\ KeyMatches(res, table) # {}
     /\ Len(Split(res.args[1], s_dash)) >= 2) =>
        LET tok == TpiToken(res.args[1]) IN
        /\ (Float10(tok) < 0 /\ tok # s_4_1_2) =>
               (res.status = "ValueError" /\ res.out = NoRecord)
        /\ (res.status = "ok" /\ tok = s_4_1_2) => res.out.threads_per_inch.mag = 45
        /\ (res.status = "ok" /\ Float10(tok) >= 0) =>
               res.out.threads_per_inch.mag = Float10(tok)

\* C15 witness: a row of size '2-4 1/4 UNC' was looked up and the
\* construction failed with float()'s ValueError
C15_Witness ==
    /\ res.op = "UnifiedScrewThread"
    /\ res.args[1] = s_size_other
    /\ table[1].size = s_size_other
    /\ res.status = "ValueError"


\* C16: dividing a product by the factor it was multiplied with gives back
\* the dimension of the other factor, and multiplying a quotient by its
\* divisor likewise: (force / area) * area is a force; the product
\* diameter ** 2 * length * density of mass_rod is a mass.
C16_DivideUndoesMultiply ==
    /\ (/\ calc.op = "divide"
        /\ calc.status = "ok"
        /\ Quantity_mul(calc.left, calc.right).status = "ok"
        /\ calc.on = Quantity_mul(calc.left, calc.right).out) =>
           UDim(calc.out.unit) = UDim(calc.left.unit)
    /\ (/\ calc.op = "multiply"
        /\ calc.status = "ok"
        /\ Quantity_truediv(calc.left, calc.right).status = "ok"
        /\ calc.on = Quantity_truediv(calc.left, calc.right).out) =>
           UDim(calc.out.unit) = UDim(calc.left.unit)
    /\ DimMul(DimMul(DimPow(LengthDim, 2), LengthDim), DensityDim) = MassDim

\* C16 witness: a pressure was multiplied by an area and the product
\* divided by the area again
C16_Witness ==
    /\ calc.op = "divide"
    /\ calc.status = "ok"
    /\ UDim(calc.left.unit) = PressureDim
    /\ UDim(calc.right.unit) = AreaDim
    /\ calc.on = Quantity_mul(calc.left, calc.right).out
    /\ UDim(calc.on.unit) = ForceDim

\* C17: a conversion fails with pint's DimensionalityError exactly when the
\* target unit's dimension differs from the Quantity's, and otherwise gives
\* a Quantity in the target unit; each conversion of the record builders is
\* between units of one dimension and succeeds.
C17_ToFailsIffDimensionDiffers ==
    /\ calc.op = "to" =>
        /\ calc.status = "DimensionalityError" <=>
               UDim(calc.on.unit) # UDim(calc.right.unit)
        /\ calc.status # "DimensionalityError" =>
               (calc.status = "ok" /\ calc.out.unit = calc.right.unit)
        /\ <<calc.on.unit, calc.right.unit>> \in BuilderConversions =>
               calc.status = "ok"
    /\ \A p \in BuilderConversions : UDim(p[1]) = UDim(p[2])

\* C17 witness: Polymer's izod impact in foot-pounds per inch was converted
\* to newtons
C17_Witness ==
    /\ calc.op = "to"
    /\ calc.on.unit = UDiv(UnitOf("ftlb"), UnitOf("inch"))
    /\ calc.right.unit = UnitOf("newtons")
    /\ calc.status = "ok"
    /\ calc.out = Qty(Rat(320, 3), UnitOf("newtons"))

\* what add and subtract give by the rule "convert the right operand to the
\* left operand's unit, combine the magnitudes, keep the left unit"
InLeftUnit(a, b, op) ==
    LET m == Quantity_to(b, a.unit).out.mag IN
    Qty(RatAdd(a.mag, IF op = "add" THEN m ELSE RatNeg(m)), a.unit)

C19_ForceOverAreaIsPressure ==
    (/\ calc.op = "divide"
     /\ UDim(calc.on.unit) = ForceDim
     /\ UDim(calc.right.unit) = AreaDim) =>
        /\ calc.status = "ok"
        /\ UDim(calc.out.unit) = PressureDim
        /\ calc.out.mag = RatMul(calc.on.mag, RatInv(calc.right.mag))
        /\ (/\ calc.on = Qty(Rat(1000, 1), UnitOf("lbf"))
            /\ calc.right = Qty(Rat(100, 1), UnitOf("sq_in"))) =>
               Quantity_to(calc.out, UnitOf("psi")) = QOk(Qty(Rat(10, 1), UnitOf("psi")))

\* C19 witness: 1000 force_pound were divided by 100 square_inch
C19_Witness ==
    /\ calc.op = "divide"
    /\ calc.on = Qty(Rat(1000, 1), UnitOf("lbf"))
    /\ calc.right = Qty(Rat(100, 1), UnitOf("sq_in"))
    /\ calc.out = Qty(Rat(10, 1), UDiv(UnitOf("lbf"), UnitOf("sq_in")))

\* C20: a column that becomes a Quantity carries a unit of the dimension
\* the column documents: a thread's diameters are lengths, a metric
\* thread's stress area is a length squared, a metal's density is a mass
\* per length cubed.
C20_ColumnsCarryDocumentedDimension ==
    res.status = "ok" =>
        /\ res.op = "MetricThread" =>
            /\ NameDim(res.out.major_dia.unit) = LengthDim
            /\ NameDim(res.out.minor_dia.unit) = LengthDim
            /\ DimPow(NameDim(res.out.stress_area.unit.base),
                      res.out.stress_area.unit.exp) = AreaDim
        /\ res.op = "UnifiedScrewThread" =>
            NameDim(res.out.major_dia.unit) = LengthDim
        /\ res.op = "Metal" =>
            DimDiv(NameDim(res.out.density.unit.num),
                   NameDim(res.out.density.unit.den)) = DensityDim

\* C21: bearing_life_hours given two forces, a rotational speed of
\* dimension 1/[time] and a bearing kind passes its guard, runs, and
\* returns the life in hours, a time.
C21_SpeedPassesGuard ==
    (/\ call.fn = "bearing_life_hours"
     /\ call.args[1] = Q(ForceDim)
     /\ call.args[2] = Q(ForceDim)
     /\ call.args[3] = Q(FrequencyDim)
     /\ call.args[4] \in {Str("ball"), Str("roller")}) =>
        /\ call.ran
        /\ call.status = "ok"
        /\ call.result = Q(TimeDim)

\* the values of polymer row held by record rec
HoldsPolymerRow(rec, row) ==
    rec.tensile_strength.mag
        \in {row.tensile_strength_ksi,
             To(Qty(row.tensile_strength_ksi, units("ksi")), units("MPa")).mag}

\* C28: Polymer(name, reinforced) takes the 'glass reinforced' row exactly
\* when reinforced is true, and every PolymerRegistry entry holds the values
\* of the row whose base resin and reinforcement gave it its name.
C28_EntryHoldsNamedRow ==
    /\ (res.op = "Polymer" /\ res.status = "ok") =>
           \E i \in KeyMatches(res, table) : HoldsPolymerRow(res.out, table[i])
    /\ (cat = "polymer" /\ regState = "built") =>
           \A i \in 1..Len(table) :
               /\ HasAttr(reg, AttrName_Polymer(table[i]))
               /\ HoldsPolymerRow(GetAttr(reg, AttrName_Polymer(table[i])), table[i])

\* the class a thread record is an instance of, told by its attributes
IsMetricThreadRecord(rec) == "pitch" \in DOMAIN rec /\ "stress_area" \in DOMAIN rec
IsUnifiedThreadRecord(rec) == "threads_per_inch" \in DOMAIN rec

\* C24: a constructed MetricThreadRegistry holds MetricThread records, one
\* per row read, and no unified-thread record.
C24_MetricRegistryHoldsMetricThreads ==
    regState = "built_metric" =>
        /\ Len(reg) > 0 \/ Len(table) = 0
        /\ \A i \in 1..Len(reg) :
               /\ IsMetricThreadRecord(reg[i].rec)
               /\ ~IsUnifiedThreadRecord(reg[i].rec)

\* C26: whenever a SpurGear exists, its derived attributes are those the
\* documented formulas give for its current num_teeth N and pitch_dia:
\* P = N / pitch_dia, addendum 1 / P, dedendum 1.25 / P, working depth
\* 2 / P, outside diameter (N + 2) / P, root diameter (N - 2.5) / P.
C26_DerivedMatchInputs ==
    gear.cls = "SpurGear" =>
        LET N == Rat(gear._num_teeth, 1)
            P == PyDiv(PyNum(N), gear._pitch_dia)
            Over(c) == PyDiv(PyNum(c), P.out)
            Is(name, c) ==
                /\ name \in DOMAIN gear.d
                /\ Over(c).status = "ok"
                /\ gear.d[name] = Over(c).out
        IN  /\ P.status = "ok"
            /\ "diametral_pitch" \in DOMAIN gear.d
            /\ gear.d["diametral_pitch"] = P.out
            /\ Is("addendum", Rat(1, 1))
            /\ Is("dedendum", Rat(5, 4))
            /\ Is("working_depth", Rat(2, 1))
            /\ Is("outside_dia", RatAdd(N, Rat(2, 1)))
            /\ Is("root_dia", RatAdd(N, Rat(-5, 2)))

\* C29: a HelicalGear's stored helix angle is in radians after construction
\* and after every assignment to beta, and an assignment of a value without
\* angle units raises AttributeError and leaves the object as it was.
C29_BetaStoredInRadians ==
    [][/\ gear'.cls = "HelicalGear" => gear'._beta.unit = U("radian")
       /\ (res'.op = "beta" /\ res'.args[1].unit \notin {U("radian"), U("degree")}) =>
              (res'.status = "AttributeError" /\ gear' = gear)]_vars


\* a value whose dimensionality is exactly [length]
IsLength(v) == v.q /\ UDim(v.unit) = LengthDim

\* the arguments of the last constructor call that must be lengths
SomeLengthArgumentIsNotALength ==
    \/ res.op \in {"Gear", "SpurGear", "HelicalGear", "Rectangle", "Circle"}
       /\ ~IsLength(res.args[1])
    \/ res.op \in {"SpurGear", "HelicalGear"} /\ ~IsLength(res.args[3])
    \/ res.op = "Rectangle" /\ ~IsLength(res.args[2])

\* C27: constructing a Gear, SpurGear, HelicalGear, Rectangle or Circle
\* with a length argument whose dimensionality is not [length] fails with
\* AttributeError, and a stored pitch_dia always has dimension length.
C27_NonLengthRefused ==
    /\ SomeLengthArgumentIsNotALength => res.status = "AttributeError"
    /\ gear # NoGear => IsLength(gear._pitch_dia)


\* C22: GearPair accepts a SpurGear or a HelicalGear in either position and
\* raises TypeError only when an argument is neither; when it is built,
\* driven_speed is driving_speed * (pinion.num_teeth / gear.num_teeth) and
\* center_distance is (pinion.pitch_dia + gear.pitch_dia) / 2.
C22_GearPairAcceptsBothClasses ==
    res.op = "GearPair" =>
        LET pinion == res.args[1]
            g == res.args[2]
            bothGears == /\ pinion.cls \in {"SpurGear", "HelicalGear"}
                         /\ g.cls \in {"SpurGear", "HelicalGear"}
        IN  /\ res.status = "TypeError" <=> ~bothGears
            /\ res.status = "ok" =>
                 /\ res.out.driven_speed.mag =
                        RatMul(res.args[3].mag, Rat(pinion._num_teeth, g._num_teeth))
                 /\ res.out.center_distance =
                        [PyAdd(pinion._pitch_dia, g._pitch_dia).out
                            EXCEPT !.mag = RatMul(@, Rat(1, 2))]


\* C23: Screw(thread, grade, length) succeeds when thread is a MetricThread
\* or a UnifiedScrewThread, storing the three arguments, and raises
\* TypeError only when thread is neither.
C23_ScrewAcceptsThreads ==
    res.op = "Screw" =>
        IF res.args[1].cls \in {"MetricThread", "UnifiedScrewThread"}
        THEN /\ res.status = "ok"
             /\ res.out = [thread |-> res.args[1], grade |-> res.args[2],
                           length |-> res.args[3]]
        ELSE res.status = "TypeError"

\* the rows of the table a call with these arguments is to return
InKind(row, kind) ==
    \E i \in 1..Len(s_WSCL) :
        /\ Contains(Upper(kind), <<s_WSCL[i]>>)
        /\ row.designation[1] = s_WSCL[i]
ValidKind(kind) ==
    \/ kind = s_all
    \/ Len(kind) > 0 /\ \A i \in 1..Len(kind) : Contains(s_WSCL, <<UpperChar(kind[i])>>)
ValidUnits(u) == u \in {s_all, s_mm, s_inch}
Wanted(t, kind, u) ==
    SelectSeq(t, LAMBDA row : /\ kind = s_all \/ InKind(row, kind)
                              /\ u = s_all \/ row.units = u)

\* C25: rolled_sections_df with a kind made of the letters w, s, c, l in
\* either case, or 'all', and units 'mm', 'inch' or 'all', returns exactly
\* the rows of the named categories and of that unit; NameError is raised
\* only for arguments outside these values.
C25_RolledSectionsFiltered ==
    res.op = "rolled_sections_df" =>
        IF ValidKind(res.args[1]) /\ ValidUnits(res.args[2])
        THEN /\ res.status = "ok"
             /\ [i \in 1..Len(res.out) |-> res.out[i].row] =
                    Wanted(table, res.args[1], res.args[2])
        ELSE res.status = "NameError"

====
